---------------------------- MODULE Spec2Model ----------------------------
(***************************************************************************)
(* A model of dropkick's image pipeline:                                   *)
(*   - sparse_copy and the set_len that follows it  (src/src/build.rs)     *)
(*   - fetch_ubuntu, the verified cache fetcher     (src/src/distro.rs)    *)
(*   - Kpartx / MountPoint / ImageContext lifecycle (src/src/kpartx.rs,    *)
(*     src/src/mount.rs, src/src/context.rs)                               *)
(* Each part has its own specification (SpecCopy, SpecFetch, SpecMount);   *)
(* the variables of the other parts stay at their initial values.          *)
(***************************************************************************)
EXTENDS Integers, Sequences, FiniteSets, TLC

VARIABLES
    \* ---- sparse_copy (build.rs) ----
    src,        \* the bytes the reader will deliver
    rpos,       \* how many of them have been read
    buf,        \* sparse_copy's buffer `buf`
    seek,       \* sparse_copy's pending-seek counter `seek`
    dest,       \* the destination file's content
    dpos,       \* the destination file's position
    base,       \* the destination's content when sparse_copy was called
    cpc         \* "copy" (in the loop), "copied" (returned), "done" (set_len ran)

copyVars == <<src, rpos, buf, seek, dest, dpos, base, cpc>>

VARIABLES
    \* ---- fetch_ubuntu (distro.rs) ----
    fpc,        \* where the current call stands
    farg,       \* the `serial` argument: None or Some(string)
    info,       \* the build-info text as fetched: None or Some(lines)
    serial,     \* the resolved `serial`
    checksums,  \* the text of SHA256SUMS as fetched (a sequence of lines)
    sigfile,    \* SHA256SUMS.gpg as fetched: None or Some(packets)
    checksum,   \* the expected digest: None, or Some(bytes) once looked up
    hasher,     \* the running hash of the download
    fs,         \* the cache directory: file name -> content
    flog,       \* what the current call has done so far, in order
    fres,       \* the call's result
    intact,     \* serial -> digest, for cache files a fetch stored and nobody touched since
    intact0,    \* `intact` as it was when the current call started
    fs0         \* `fs` as it was when the current call started

fetchVars == <<fpc, farg, info, serial, checksums, sigfile, checksum, hasher, fs,
               flog, fres, intact, intact0, fs0>>

VARIABLES
    \* ---- Kpartx, MountPoint, ImageContext (kpartx.rs, mount.rs, context.rs) ----
    mpc,        \* what the caller holds: "start" nothing yet, "kpartx", "mounted",
                \* "end"; "killed" when a signal ended the process
    kout,       \* the output `kpartx -avs` gave as text: None or Some(lines)
    kpx,        \* the Kpartx the caller holds: None or Some([source, partitions])
    mnt,        \* the MountPoint the caller holds: None or Some([path, kpartx])
    sys,        \* the commands run so far and what they left behind
    mop,        \* the last operation
    mres        \* its result

mountVars == <<mpc, kout, kpx, mnt, sys, mop, mres>>

VARIABLES
    \* ---- CommandExt::with_sudo (command.rs) ----
    spc,        \* "new" while the caller builds the command, then "wrapped"
    cmd,        \* the command the caller built
    wrapped     \* what with_sudo returned: None or Some(command)

sudoVars == <<spc, cmd, wrapped>>

VARIABLES
    \* ---- image names (ec2.rs, oxide.rs) ----
    npc,        \* "input" before the name is computed, then "named"
    pkgName,    \* metadata.package.name, a sequence of characters
    storeHash,  \* metadata.store_hash
    provider,   \* "ec2" or "oxide" once the name is computed
    imageName   \* image_name

nameVars == <<npc, pkgName, storeHash, provider, imageName>>

VARIABLES
    \* ---- publishing (ec2.rs, oxide.rs) ----
    pprov,      \* the provider: "ec2" or "oxide"
    pdeploy,    \* create_oxide_image's `deploy`
    registry,   \* what the provider holds: images, snapshots, disks, instances, tags
    pst,        \* each invocation: "idle", "running" or "done"
    pidx,       \* each invocation: how many remote calls it has made
    pimg,       \* each invocation: the image it registered or found after creating
    pseen,      \* each invocation: an identifier returned before it started
    pres,       \* each invocation: its result
    plog,       \* each invocation: the remote calls it made and how each ended
    prec,       \* each invocation: it started alone, after a run that failed
                \* past the lookup, with no image under the name
    pmeta,      \* metadata.flake_revs: input name -> [last_modified, rev]
    ptags       \* each invocation: the tags its create_tags request carried

pubVars == <<pprov, pdeploy, registry, pst, pidx, pimg, pseen, pres, plog, prec,
             pmeta, ptags>>

VARIABLES
    \* ---- deployment-stack update ----
    kpc,        \* "polling" or "done"
    polls,      \* how many times the stack status has been polled
    kstatus,    \* the status the last poll saw
    kres        \* the result of the update

stackVars == <<kpc, polls, kstatus, kres>>

VARIABLES
    \* ---- NixosBuilder::build (nix/mod.rs) ----
    bpc,        \* "start", "prepared" (the builder's inputs are written), "done"
                \* (build returned), then "iso" or "failed" (create_iso
                \* returned), then "publishing"
    embedded,   \* the embedded flake.lock, as a JSON document
    written,    \* the flake.lock written for the builder: None or Some(document)
    nixRuns,    \* how many times `nix build` was run
    resultPath, \* the resolved `result` link: None or Some(path)
    bres,       \* what build returned
    bsteps,     \* what build and its caller did after the inputs were written
    outFile     \* a file was put at the requested output path

buildVars == <<bpc, embedded, written, nixRuns, resultPath, bres, bsteps, outFile>>

VARIABLES
    \* ---- Args::into_nixos_builder, Args::create_iso (build.rs) ----
    tpc,        \* "args", then "selected" or "failed", then "built"
    targets,    \* package.targets: a sequence of [name, kind]
    cliBin,     \* --bin on the command line: None or Some(name)
    metaBin,    \* `bin` in [package.metadata.dropkick]: None or Some(name)
    builderRuns,\* how many times NixosBuilder::build was called
    tres        \* what into_nixos_builder returned: the bin name, or an error

targetVars == <<tpc, targets, cliBin, metaBin, builderRuns, tres>>

VARIABLES
    \* ---- Config::update, defaults (build.rs) ----
    cfgPc,      \* "args", then "done"
    cfgCli,     \* the Config parsed from the command line
    cfgMeta,    \* [package.metadata.dropkick]: None or Some(Config)
    cfgMerged,  \* self.config after line 112
    cfgEff      \* self.config after line 115, as the builder gets it

configVars == <<cfgPc, cfgCli, cfgMeta, cfgMerged, cfgEff>>

vars == <<copyVars, fetchVars, mountVars, sudoVars, nameVars, pubVars, stackVars,
    buildVars, targetVars, configVars>>

\* What each part leaves alone.
notCopy == <<fetchVars, mountVars, sudoVars, nameVars, pubVars, stackVars, buildVars,
    targetVars, configVars>>
notFetch == <<copyVars, mountVars, sudoVars, nameVars, pubVars, stackVars, buildVars,
    targetVars, configVars>>
notMount == <<copyVars, fetchVars, sudoVars, nameVars, pubVars, stackVars, buildVars,
    targetVars, configVars>>
notSudo == <<copyVars, fetchVars, mountVars, nameVars, pubVars, stackVars, buildVars,
    targetVars, configVars>>
notName == <<copyVars, fetchVars, mountVars, sudoVars, pubVars, stackVars, buildVars,
    targetVars, configVars>>
notPub == <<copyVars, fetchVars, mountVars, sudoVars, nameVars, stackVars, buildVars,
    targetVars, configVars>>
notStack == <<copyVars, fetchVars, mountVars, sudoVars, nameVars, pubVars, buildVars,
    targetVars, configVars>>
notBuild == <<copyVars, fetchVars, mountVars, sudoVars, nameVars, pubVars, stackVars,
    targetVars, configVars>>
notTarget == <<copyVars, fetchVars, mountVars, sudoVars, nameVars, pubVars, stackVars,
    buildVars, configVars>>
notConfig == <<copyVars, fetchVars, mountVars, sudoVars, nameVars, pubVars, stackVars,
    buildVars, targetVars>>

Min(a, b) == IF a < b THEN a ELSE b
Max(a, b) == IF a > b THEN a ELSE b

(***************************************************************************)
(*                              sparse_copy                                *)
(***************************************************************************)

\* The buffer length: `[0; 4096]` in the source, scaled down for model checking.
BufSize == 2
\* The longest source stream and the longest destination prefix tried.
MaxSrcLen == 3
MaxBaseLen == 1
\* Byte values: 0 and two non-zero values.
Bytes == {0, 1, 2}

SeqsUpTo(S, n) == UNION {[1..k -> S] : k \in 0..n}

\* `buf[..n] == [0; 4096][..n]`: only the bytes read are compared.
IsZeroBlock(b, n) == \A i \in 1..n : b[i] = 0

\* Read::read into `buf`: the first n bytes are replaced, the rest is kept.
ReadInto(b, data) ==
    [i \in 1..Len(b) |-> IF i <= Len(data) THEN data[i] ELSE b[i]]

\* Write `data` into a file at position `pos`; a gap past the end reads as zero.
WriteAt(file, pos, data) ==
    [i \in 1..Max(Len(file), pos + Len(data)) |->
        IF i > pos /\ i <= pos + Len(data) THEN data[i - pos]
        ELSE IF i <= Len(file) THEN file[i]
        ELSE 0]

\* File::set_len: truncate, or extend with zeros.
SetLen(file, len) ==
    [i \in 1..len |-> IF i <= Len(file) THEN file[i] ELSE 0]

\* The slice handed to write_all for a non-zero block: `&buf`, the whole buffer.
WriteSlice(b, n) == b

CopyInit ==
    /\ src \in SeqsUpTo(Bytes, MaxSrcLen)
    /\ base \in SeqsUpTo(Bytes \ {0}, MaxBaseLen)
    /\ dest = base
    /\ dpos = Len(base)
    /\ rpos = 0
    /\ buf = [i \in 1..BufSize |-> 0]
    /\ seek = 0
    /\ cpc = "copy"

\* The copy part at rest, for the specifications of the other parts.
CopyIdle ==
    /\ src = <<>> /\ base = <<>> /\ dest = <<>> /\ dpos = 0 /\ rpos = 0
    /\ buf = <<>> /\ seek = 0 /\ cpc = "idle"

\* One turn of the loop in which read returned n > 0 bytes.
CopyBlock(n) ==
    /\ cpc = "copy"
    /\ n \in 1..Min(BufSize, Len(src) - rpos)
    /\ LET data == SubSeq(src, rpos + 1, rpos + n)
           nbuf == ReadInto(buf, data)
       IN  /\ buf' = nbuf
           /\ rpos' = rpos + n
           /\ IF IsZeroBlock(nbuf, n)
              THEN /\ seek' = seek + n
                   /\ UNCHANGED <<dest, dpos>>
              ELSE LET at == IF seek > 0 THEN dpos + seek ELSE dpos
                       out == WriteSlice(nbuf, n)
                   IN  /\ seek' = 0
                       /\ dest' = WriteAt(dest, at, out)
                       /\ dpos' = at + Len(out)
    /\ UNCHANGED <<src, base, cpc>>
    /\ UNCHANGED notCopy

\* read returned 0: leave the loop, apply the pending seek, return.
CopyEof ==
    /\ cpc = "copy"
    /\ rpos = Len(src)
    /\ dpos' = IF seek > 0 THEN dpos + seek ELSE dpos
    /\ cpc' = "copied"
    /\ UNCHANGED <<src, rpos, buf, seek, dest, base>>
    /\ UNCHANGED notCopy

\* create_iso: `let len = file.stream_position()?; file.set_len(len)?;`
CreateIsoSetLen ==
    /\ cpc = "copied"
    /\ dest' = SetLen(dest, dpos)
    /\ cpc' = "done"
    /\ UNCHANGED <<src, rpos, buf, seek, dpos, base>>
    /\ UNCHANGED notCopy

CopyNext ==
    \/ \E n \in 1..BufSize : CopyBlock(n)
    \/ CopyEof
    \/ CreateIsoSetLen

(***************************************************************************)
(*                              fetch_ubuntu                               *)
(***************************************************************************)
\* Strings are sequences of tokens (a token is a character or a run of
\* characters no operation of the code looks into), so that format!,
\* strip_prefix and strip_suffix are what they are in the code: concatenation
\* and a comparison of the first or last tokens.

\* Option<T>
None == <<>>
Some(x) == <<x>>

\* Result<PathBuf>: Err carries the error's message.
Ok(path) == [ok |-> TRUE, val |-> path]
Err(msg) == [ok |-> FALSE, val |-> <<msg>>]

\* The longest artifact body the server sends, in chunks.
MaxBody == 2
\* What a chunk can hold.
Chunks == {0, 1}

\* str::strip_prefix / str::strip_suffix
StripPrefix(line, pre) ==
    IF Len(line) >= Len(pre) /\ SubSeq(line, 1, Len(pre)) = pre
    THEN Some(SubSeq(line, Len(pre) + 1, Len(line)))
    ELSE None

StripSuffix(line, suf) ==
    IF Len(line) >= Len(suf)
       /\ SubSeq(line, Len(line) - Len(suf) + 1, Len(line)) = suf
    THEN Some(SubSeq(line, 1, Len(line) - Len(suf)))
    ELSE None

\* Sha256: new / update / finalize. The digest is one byte here, and the
\* update is chosen so that no two bodies of the sizes tried collide.
HashNew == 0
HashUpdate(h, chunk) == (h * 3 + chunk + 1) % 256
HashFinalize(h) == <<h>>

RECURSIVE HashFrom(_, _)
HashFrom(h, body) ==
    IF body = <<>> THEN h ELSE HashFrom(HashUpdate(h, Head(body)), Tail(body))

\* The read loop over the cached file (lines 78-94): the digest of a file.
Sha256(body) == HashFinalize(HashFrom(HashNew, body))

\* hex::decode: two digits a byte, either case; None on an odd length or on a
\* character that is no hex digit.
HexLower == <<"0","1","2","3","4","5","6","7","8","9","a","b","c","d","e","f">>
HexUpper == <<"0","1","2","3","4","5","6","7","8","9","A","B","C","D","E","F">>

HexVal(c) ==
    IF \E i \in 1..16 : HexLower[i] = c
    THEN (CHOOSE i \in 1..16 : HexLower[i] = c) - 1
    ELSE IF \E i \in 1..16 : HexUpper[i] = c
    THEN (CHOOSE i \in 1..16 : HexUpper[i] = c) - 1
    ELSE -1

HexDecode(text) ==
    IF Len(text) % 2 # 0 \/ \E i \in 1..Len(text) : HexVal(text[i]) < 0
    THEN None
    ELSE Some([i \in 1..(Len(text) \div 2) |->
                  16 * HexVal(text[2 * i - 1]) + HexVal(text[2 * i])])

\* The hex text of a digest as sha256sum (or anyone else) may write it.
HexEncode(bytes, digits) ==
    [i \in 1..(2 * Len(bytes)) |->
        IF i % 2 = 1 THEN digits[(bytes[(i + 1) \div 2] \div 16) + 1]
        ELSE digits[(bytes[i \div 2] % 16) + 1]]

\* `version`, `arch`, `filename` (lines 20-21, 62)
Version == <<"jammy">>
Arch == <<"amd64">>
Filename == Version \o <<"-minimal-cloudimg-">> \o Arch \o <<".img">>

\* The URLs and the cache file's name (lines 29-32, 42-45, 72-77)
BuildInfoUrl ==
    <<"https://cloud-images.ubuntu.com/minimal/daily/">> \o Version
        \o <<"/current/unpacked/build-info.txt">>
BaseUrl(s) ==
    <<"https://cloud-images.ubuntu.com/minimal/daily/">> \o Version \o <<"/">>
        \o s \o <<"/">>
CachePath(s) ==
    <<"ubuntu-">> \o Version \o <<"-">> \o Arch \o <<"-">> \o s \o <<".img">>
\* The NamedTempFile created in the cache directory.
TempPath == <<".tmp">>

\* The serials and build-info texts tried.
Serials == {<<"20240101">>, <<"20240202">>}
SerialArgs == {None, Some(<<"current">>)} \cup {Some(s) : s \in Serials}
BuildInfos ==
    { << <<"build_name=", "minimal">>, <<"serial=", "20240101">> >>,
      << <<"serial=", "20240202">>, <<"serial=", "20240101">> >>,
      << <<"build_name=", "minimal">>, <<"#", "serial=", "20240101">> >>,
      << >> }

\* The artifact bodies a server can send.
Bodies == SeqsUpTo(Chunks, MaxBody)
\* The bodies whose digests the manifests tried name.
ListedBodies == {<<0>>, <<1>>}

\* Lines of SHA256SUMS: `<hex digest> *<file name>`.
SumLine(digest, digits, name) == HexEncode(digest, digits) \o <<" ", "*">> \o name
OtherName == Version \o <<"-minimal-cloudimg-">> \o <<"arm64">> \o <<".img">>
\* A file whose name ends with the target's name.
LongerName == <<"old-">> \o Filename
\* A file whose name holds a blank and a star before the target's name.
OddName == <<"notes">> \o <<" ", "*">> \o Filename

Manifests ==
    UNION {
        { << SumLine(Sha256(<<1, 1>>), HexLower, OtherName),
             SumLine(Sha256(b), HexLower, Filename) >>,
          << SumLine(Sha256(b), HexUpper, Filename),
             SumLine(Sha256(<<1, 1>>), HexLower, Filename) >> }
        : b \in ListedBodies }
    \cup
    { << SumLine(Sha256(<<0>>), HexLower, OtherName),
         SumLine(Sha256(<<0>>), HexLower, LongerName) >>,
      << <<"z", "z", " ", "*">> \o Filename >>,
      << SumLine(Sha256(<<0>>), HexLower, OddName) >>,
      << >> }

\* The signature file: a sequence of OpenPGP packets. A signature packet
\* records what it was made over and with which key; "junk" is bytes no
\* packet parses from, "key" a packet that is no signature. (ASCII armor,
\* distro.rs 147-148, only changes how the same packets are read.)
UbuntuKey == "ubuntu"
SigPacket(over, key) == [tag |-> "sig", over |-> over, key |-> key]
JunkPacket == [tag |-> "junk", over |-> <<>>, key |-> ""]
KeyPacket == [tag |-> "key", over |-> <<>>, key |-> ""]

\* parse_signature: the first packet, which must parse and be a signature.
ParseSignature(bytes) ==
    IF bytes = <<>> THEN [ok |-> FALSE, sig |-> JunkPacket, err |-> "signature was empty"]
    ELSE IF bytes[1].tag = "junk"
    THEN [ok |-> FALSE, sig |-> JunkPacket, err |-> "packet parse error"]
    ELSE IF bytes[1].tag # "sig"
    THEN [ok |-> FALSE, sig |-> JunkPacket, err |-> "not a signature packet"]
    ELSE [ok |-> TRUE, sig |-> bytes[1], err |-> ""]

\* A verify that does not check which key signed.
SigVerifyAnyKey(sig, key, data) == sig.over = data

\* Signature::verify(key, data)
SigVerify(sig, key, data) == sig.key = key /\ sig.over = data

\* The signature files a server can send along with manifest m.
SigFiles(m) ==
    { << SigPacket(m, UbuntuKey) >>,
      << SigPacket(m, UbuntuKey), JunkPacket >>,
      << SigPacket(m, "mallory") >>,
      << SigPacket(<< <<"tampered">> >>, UbuntuKey) >>,
      << JunkPacket >>,
      << KeyPacket, SigPacket(m, UbuntuKey) >>,
      << >> }

\* Iterator::find_map over the lines of a text: the first line f maps to Some.
FindMap(lines, f(_)) ==
    LET hits == {i \in 1..Len(lines) : f(lines[i]) # None}
    IN  IF hits = {} THEN None
        ELSE f(lines[CHOOSE i \in hits : \A j \in hits : i <= j])

\* What the call has done: network requests and file operations.
Ev(op, arg) == [op |-> op, arg |-> arg]

FetchInit ==
    /\ fpc = "idle"
    /\ farg = None
    /\ info = None
    /\ serial = <<>>
    /\ checksums = <<>>
    /\ sigfile = None
    /\ checksum = None
    /\ hasher = HashNew
    /\ fs = <<>>
    /\ flog = <<>>
    /\ fres = Err("")
    /\ intact = <<>>
    /\ intact0 = <<>>
    /\ fs0 = <<>>

FetchIdle == FetchInit

\* The call returns r.
Return(r) ==
    /\ fres' = r
    /\ fpc' = "done"

\* Remove a file / put a file.
FsRemove(f, path) == [p \in DOMAIN f \ {path} |-> f[p]]
FsPut(f, path, body) == [p \in DOMAIN f \cup {path} |-> IF p = path THEN body ELSE f[p]]

\* fetch_ubuntu(serial) is called.
FetchCall(arg) ==
    /\ fpc = "idle"
    /\ farg' = arg
    /\ fpc' = "serial"
    /\ flog' = <<>>
    /\ intact0' = intact
    /\ fs0' = fs
    /\ UNCHANGED <<info, serial, checksums, sigfile, checksum, hasher, fs, fres, intact>>
    /\ UNCHANGED notFetch

\* A match that looks the serial up only when none is given.
LooksUpSerialNoneOnly(arg) == arg = None

\* The argument patterns that make the code look the serial up (line 29).
LooksUpSerial(arg) == arg = Some(<<"current">>) \/ arg = None

\* Lines 28-40: `let serial = match serial { ... }`.
ResolveSerial(netOk, text) ==
    /\ fpc = "serial"
    /\ IF LooksUpSerial(farg)
       THEN /\ flog' = Append(flog, Ev("get", BuildInfoUrl))
            /\ IF ~netOk
               THEN Return(Err("request failed")) /\ UNCHANGED <<serial, info>>
               ELSE LET found == FindMap(text, LAMBDA line : StripPrefix(line, <<"serial=">>))
                    IN  /\ info' = Some(text)
                        /\ IF found = None
                           THEN /\ Return(Err("no image serial found in current ubuntu image build info"))
                                /\ UNCHANGED serial
                           ELSE /\ serial' = found[1]
                                /\ fpc' = "sums"
                                /\ UNCHANGED fres
       ELSE /\ serial' = farg[1]
            /\ fpc' = "sums"
            /\ UNCHANGED <<flog, fres, info>>
    /\ UNCHANGED <<farg, checksums, sigfile, checksum, hasher, fs, intact, intact0, fs0>>
    /\ UNCHANGED notFetch

\* Lines 46-57: fetch SHA256SUMS and SHA256SUMS.gpg, parse and verify the
\* signature. netFail is the request that fails (0: none).
FetchAndVerify(netFail, m, sigBytes) ==
    /\ fpc = "sums"
    /\ LET url1 == BaseUrl(serial) \o <<"SHA256SUMS">>
           url2 == BaseUrl(serial) \o <<"SHA256SUMS.gpg">>
           parsed == ParseSignature(sigBytes)
       IN  IF netFail = 1
           THEN /\ flog' = Append(flog, Ev("get", url1))
                /\ Return(Err("request failed"))
                /\ UNCHANGED <<checksums, sigfile>>
           ELSE /\ checksums' = m
                /\ flog' = flog \o <<Ev("get", url1), Ev("get", url2)>>
                /\ IF netFail = 2
                   THEN Return(Err("request failed")) /\ UNCHANGED sigfile
                   ELSE /\ sigfile' = Some(sigBytes)
                        /\ IF ~parsed.ok THEN Return(Err(parsed.err))
                           ELSE IF ~SigVerify(parsed.sig, UbuntuKey, m)
                           THEN Return(Err("signature verification failed"))
                           ELSE fpc' = "lookup" /\ UNCHANGED fres
    /\ UNCHANGED <<farg, info, serial, checksum, hasher, fs, intact, intact0, fs0>>
    /\ UNCHANGED notFetch

\* The manifest line the lookup takes, with ` *<filename>` stripped (line 66).
FindChecksumText(text) ==
    FindMap(text, LAMBDA line : StripSuffix(line, <<" ", "*">> \o Filename))

\* Lines 62-69: `let checksum = hex::decode(...)`.
LookupChecksum ==
    /\ fpc = "lookup"
    /\ flog' = Append(flog, Ev("digest", Filename))
    /\ LET found == FindChecksumText(checksums)
       IN  IF found = None
           THEN Return(Err("failed to find checksum in SHA256SUMS")) /\ UNCHANGED checksum
           ELSE IF HexDecode(found[1]) = None
           THEN Return(Err("failed to hex decode checksum")) /\ UNCHANGED checksum
           ELSE /\ checksum' = HexDecode(found[1])
                /\ fpc' = "cache"
                /\ UNCHANGED fres
    /\ UNCHANGED <<farg, info, serial, checksums, sigfile, hasher, fs, intact, intact0, fs0>>
    /\ UNCHANGED notFetch

\* A cache check that never, or always, accepts the file.
CacheMatchesNever(body, sum) == FALSE
CacheMatchesAlways(body, sum) == TRUE

\* Whether the cached file is good: `hasher.finalize().as_slice() == checksum`.
CacheMatches(body, sum) == Sha256(body) = sum

\* A stale file left where it is.
RemoveStaleKeep(f, path) == f

\* Line 102: `std::fs::remove_file(&cache_path)?`
RemoveStale(f, path) == FsRemove(f, path)

\* Lines 71-107: `let download_needed = match File::open(&cache_path) ...`,
\* and, with nothing to download, `Ok(cache_path)`.
CheckCache ==
    /\ fpc = "cache"
    /\ LET path == CachePath(serial)
           opened == <<Ev("mkdir", <<>>), Ev("open", path)>>
       IN  IF path \in DOMAIN fs
           THEN IF CacheMatches(fs[path], checksum[1])
                THEN /\ flog' = flog \o opened \o <<Ev("hash", path)>>
                     /\ Return(Ok(path))
                     /\ UNCHANGED <<fs, intact>>
                ELSE /\ flog' = flog \o opened
                              \o <<Ev("hash", path),
                                   Ev("warn", <<"cached image checksum mismatch, redownloading">>),
                                   Ev("remove", path)>>
                     /\ fs' = RemoveStale(fs, path)
                     /\ intact' = FsRemove(intact, serial)
                     /\ fpc' = "download"
                     /\ UNCHANGED fres
           ELSE /\ flog' = flog \o opened
                /\ fpc' = "download"
                /\ UNCHANGED <<fs, fres, intact>>
    /\ UNCHANGED <<farg, info, serial, checksums, sigfile, checksum, hasher, intact0, fs0>>
    /\ UNCHANGED notFetch

\* Lines 109-119: request the artifact, create the temporary file.
DownloadStart(netOk) ==
    /\ fpc = "download"
    /\ IF ~netOk
       THEN /\ flog' = Append(flog, Ev("get", BaseUrl(serial) \o Filename))
            /\ Return(Err("request failed"))
            /\ UNCHANGED <<fs, hasher>>
       ELSE /\ flog' = flog \o <<Ev("get", BaseUrl(serial) \o Filename), Ev("mktemp", TempPath)>>
            /\ fs' = FsPut(fs, TempPath, <<>>)
            /\ hasher' = HashNew
            /\ fpc' = "stream"
            /\ UNCHANGED fres
    /\ UNCHANGED <<farg, info, serial, checksums, sigfile, checksum, intact, intact0, fs0>>
    /\ UNCHANGED notFetch

\* Lines 120-124: one chunk arrives, is hashed and written.
DownloadChunk(chunk) ==
    /\ fpc = "stream"
    /\ Len(fs[TempPath]) < MaxBody
    /\ hasher' = HashUpdate(hasher, chunk)
    /\ fs' = FsPut(fs, TempPath, Append(fs[TempPath], chunk))
    /\ UNCHANGED <<fpc, farg, info, serial, checksums, sigfile, checksum, flog, fres, intact, intact0, fs0>>
    /\ UNCHANGED notFetch

\* Line 120: `response.chunk().await?` fails; the TempPath is dropped.
DownloadError ==
    /\ fpc = "stream"
    /\ flog' = Append(flog, Ev("rmtemp", TempPath))
    /\ fs' = FsRemove(fs, TempPath)
    /\ Return(Err("request failed"))
    /\ UNCHANGED <<farg, info, serial, checksums, sigfile, checksum, hasher, intact, intact0, fs0>>
    /\ UNCHANGED notFetch

\* A download check that accepts any body.
DownloadMatchesAny(h, sum) == TRUE

\* Whether the download is good: `hasher.finalize().as_slice() == checksum`.
DownloadMatches(h, sum) == HashFinalize(h) = sum

\* Lines 125-134: the body is complete; check it and move it into the cache.
DownloadEnd ==
    /\ fpc = "stream"
    /\ LET path == CachePath(serial)
       IN  IF DownloadMatches(hasher, checksum[1])
           THEN /\ flog' = Append(flog, Ev("rename", path))
                /\ fs' = FsPut(FsRemove(fs, TempPath), path, fs[TempPath])
                /\ intact' = FsPut(intact, serial, checksum[1])
                /\ Return(Ok(path))
           ELSE /\ flog' = Append(flog, Ev("rmtemp", TempPath))
                /\ fs' = FsRemove(fs, TempPath)
                /\ Return(Err("invalid checksum for downloaded image"))
                /\ UNCHANGED intact
    /\ UNCHANGED <<farg, info, serial, checksums, sigfile, checksum, hasher, intact0, fs0>>
    /\ UNCHANGED notFetch

\* The caller takes the result; the call's locals are gone.
FetchReturn ==
    /\ fpc = "done"
    /\ fpc' = "idle"
    /\ farg' = None
    /\ info' = None
    /\ serial' = <<>>
    /\ checksums' = <<>>
    /\ sigfile' = None
    /\ checksum' = None
    /\ hasher' = HashNew
    /\ flog' = <<>>
    /\ fres' = Err("")
    /\ intact0' = <<>>
    /\ fs0' = <<>>
    /\ UNCHANGED <<fs, intact>>
    /\ UNCHANGED notFetch

\* Between calls somebody else overwrites or deletes a cached file ("safe to
\* delete entirely at any time").
CacheTampered(s, body) ==
    /\ fpc = "idle"
    /\ CachePath(s) \in DOMAIN fs
    /\ fs[CachePath(s)] # body
    /\ fs' = FsPut(fs, CachePath(s), body)
    /\ intact' = FsRemove(intact, s)
    /\ UNCHANGED <<fpc, farg, info, serial, checksums, sigfile, checksum, hasher, flog, fres, intact0, fs0>>
    /\ UNCHANGED notFetch

CacheDeleted(s) ==
    /\ fpc = "idle"
    /\ CachePath(s) \in DOMAIN fs
    /\ fs' = FsRemove(fs, CachePath(s))
    /\ intact' = FsRemove(intact, s)
    /\ UNCHANGED <<fpc, farg, info, serial, checksums, sigfile, checksum, hasher, flog, fres, intact0, fs0>>
    /\ UNCHANGED notFetch

FetchNext ==
    \/ \E arg \in SerialArgs : FetchCall(arg)
    \/ \E netOk \in BOOLEAN, text \in BuildInfos : ResolveSerial(netOk, text)
    \/ \E netFail \in 0..2, m \in Manifests : \E sigBytes \in SigFiles(m) :
          FetchAndVerify(netFail, m, sigBytes)
    \/ LookupChecksum
    \/ CheckCache
    \/ \E netOk \in BOOLEAN : DownloadStart(netOk)
    \/ \E chunk \in Chunks : DownloadChunk(chunk)
    \/ DownloadError
    \/ DownloadEnd
    \/ FetchReturn
    \/ \E s \in Serials, body \in Bodies : CacheTampered(s, body)
    \/ \E s \in Serials : CacheDeleted(s)

(***************************************************************************)
(*                    Kpartx / MountPoint / ImageContext                   *)
(***************************************************************************)

\* The most lines of `kpartx -avs` output tried.
MaxLines == 2

\* The most times a caller mounts the partitions of one Kpartx.
MaxMounts == 1

\* The marker Kpartx::new looks for, as one token; `Blank` is a run of
\* whitespace, any other token a run of non-whitespace characters.
AddMap == "add map "
Blank == " "

\* Lines `kpartx -avs` can print.
KpartxLines ==
    { <<AddMap, "loop0p1", Blank, "(253:0):">>,
      <<AddMap, "loop0p2", Blank, "(253:1):">>,
      <<AddMap, Blank, "loop0p3">>,
      <<Blank, AddMap, "loop0p4">>,
      <<"loop deleted : ", "/dev/loop0">>,
      <<AddMap>>,
      <<>> }
KpartxOutputs == SeqsUpTo(KpartxLines, MaxLines)

\* The backing file and the mount directory.
Image == <<"image.tmp">>
MountDir == <<"mnt.tmp">>

\* What the program has done to the system so far: the commands it ran, and
\* what they left behind.
SysInit ==
    [log |-> <<>>,          \* commands invoked, in order
     mapped |-> FALSE,      \* the image's partitions are mapped
     mounted |-> FALSE,     \* the main partition is mounted at MountDir
     image |-> "temp",      \* the backing file: "temp", "deleted" or "persisted"
     dir |-> FALSE,         \* the mount directory exists
     errors |-> <<>>]       \* `error!(%err, "cleanup failed")` records

Cmd(prog, sudo, arg, ok) == [prog |-> prog, sudo |-> sudo, arg |-> arg, ok |-> ok]

\* kpartx.rs 17-24: `kpartx -avs <source>` through with_sudo.
RunMap(st, ok) ==
    [st EXCEPT !.log = Append(@, Cmd("kpartx -avs", TRUE, Image, ok)),
               !.mapped = ok]

\* kpartx.rs 69-77: cleanup, `kpartx -d <source>` through with_sudo.
Cleanup(st, ok) ==
    [st EXCEPT !.log = Append(@, Cmd("kpartx -d", TRUE, Image, ok)),
               !.mapped = IF ok THEN FALSE ELSE @]

\* mount.rs 25-31: `mount <main partition> <path>`.
RunMount(st, dev, ok) ==
    [st EXCEPT !.log = Append(@, Cmd("mount", FALSE, dev \o MountDir, ok)),
               !.mounted = ok]

\* mount.rs 60-67: unmount, `umount <path>`.
Unmount(st, ok) ==
    [st EXCEPT !.log = Append(@, Cmd("umount", FALSE, MountDir, ok)),
               !.mounted = IF ok THEN FALSE ELSE @]

\* How many times a command has been invoked.
Invocations(log, prog) == Cardinality({i \in 1..Len(log) : log[i].prog = prog})

\* A TempPath is dropped: the file is removed.
DropTempPath(st) == [st EXCEPT !.image = "deleted"]
\* A TempDir is created / dropped.
MakeTempDir(st) == [st EXCEPT !.dir = TRUE]
DropTempDir(st) == [st EXCEPT !.dir = FALSE]

LogError(st, who) == [st EXCEPT !.errors = Append(@, who)]

\* kpartx.rs 58-67: Drop for Kpartx, then its fields (the TempPath, if any).
DropKpartx(st, k, delOk) ==
    IF k.source # None
    THEN LET s1 == Cleanup(st, delOk)
             s2 == IF delOk THEN s1 ELSE LogError(s1, "Kpartx::drop")
         IN  DropTempPath(s2)
    ELSE st

\* The order in which a dropped MountPoint releases: umount, then the fields
\* in declaration order, `path` and then `kpartx`.
DropMountPointKpartxFirst(st, m, umountOk, delOk) ==
    LET s1 == IF m.kpartx # None THEN DropKpartx(st, m.kpartx[1], delOk) ELSE st
        s2 == IF m.kpartx # None
              THEN LET u == Unmount(s1, umountOk)
                   IN  IF umountOk THEN u ELSE LogError(u, "MountPoint::drop")
              ELSE s1
    IN  DropTempDir(s2)

\* mount.rs 49-58: Drop for MountPoint, then its fields `path`, `kpartx`.
DropMountPoint(st, m, umountOk, delOk) ==
    LET s1 == IF m.kpartx # None
              THEN LET u == Unmount(st, umountOk)
                   IN  IF umountOk THEN u ELSE LogError(u, "MountPoint::drop")
              ELSE st
        s2 == DropTempDir(s1)
    IN  IF m.kpartx # None THEN DropKpartx(s2, m.kpartx[1], delOk) ELSE s2

\* str::split_whitespace().next() on the tokens after the marker.
FirstWord(rest) ==
    LET words == {i \in 1..Len(rest) : rest[i] # Blank}
    IN  IF words = {} THEN None
        ELSE Some(rest[CHOOSE i \in words : \A j \in words : i <= j])

\* A marker found anywhere in the line, not only at its start.
MarkedRestAnywhere(line) ==
    LET at == {i \in 1..Len(line) : line[i] = AddMap}
    IN  IF at = {} THEN None
        ELSE Some(SubSeq(line, (CHOOSE i \in at : \A j \in at : i <= j) + 1, Len(line)))

\* kpartx.rs 33: `line.strip_prefix("add map ")`.
MarkedRest(line) == StripPrefix(line, <<AddMap>>)

\* kpartx.rs 32-38: the loop over the output's lines. The result is the list
\* of partitions, or a panic when a marked line has no word after the marker
\* (`.next().unwrap()`).
RECURSIVE ParsePartitions(_, _)
ParsePartitions(lines, acc) ==
    IF lines = <<>> THEN [panic |-> FALSE, partitions |-> acc]
    ELSE LET s == MarkedRest(Head(lines))
         IN  IF s = None THEN ParsePartitions(Tail(lines), acc)
             ELSE IF FirstWord(s[1]) = None THEN [panic |-> TRUE, partitions |-> acc]
             ELSE ParsePartitions(Tail(lines), Append(acc, FirstWord(s[1])[1]))

\* kpartx.rs 47-49: main_partition.
MainPartition(k) == <<"/dev/mapper/">> \o <<k.partitions[1]>>

MountInit ==
    /\ mpc = "start"
    /\ kout = None
    /\ kpx = None
    /\ mnt = None
    /\ sys = SysInit
    /\ mop = "none"
    /\ mres = Err("")

MountIdle == MountInit

\* A Kpartx::new that builds the Kpartx only once the output is parsed: a
\* failure to parse returns with nothing to drop but the TempPath.
KpartxNewLateGuard(run, utf8Ok, out) ==
    /\ mpc = "start"
    /\ mop' = "Kpartx::new"
    /\ kout' = IF run = "ok" /\ utf8Ok THEN Some(out) ELSE None
    /\ mnt' = None
    /\ LET s1 == RunMap(sys, run = "ok")
           k == [source |-> Some(Image), partitions |-> <<>>]
           parsed == ParsePartitions(out, <<>>)
       IN  IF run # "ok"
           THEN /\ sys' = DropTempPath(s1)
                /\ mres' = Err(IF run = "spawn" THEN "kpartx -avs failed" ELSE "process exited with failure")
                /\ mpc' = "end" /\ kpx' = None
           ELSE \E delOk \in BOOLEAN :
                IF ~utf8Ok
                THEN /\ sys' = DropTempPath(s1)
                     /\ mres' = Err("invalid utf-8 sequence")
                     /\ mpc' = "end" /\ kpx' = None
                ELSE IF parsed.panic
                THEN /\ sys' = DropTempPath(s1)
                     /\ mres' = Err("panic: called Option::unwrap() on a None value")
                     /\ mpc' = "end" /\ kpx' = None
                ELSE IF parsed.partitions = <<>>
                THEN /\ sys' = DropTempPath(s1)
                     /\ mres' = Err("no partitions detected from kpartx output")
                     /\ mpc' = "end" /\ kpx' = None
                ELSE /\ delOk
                     /\ sys' = s1
                     /\ mres' = Ok(<<"Kpartx">>)
                     /\ kpx' = Some([k EXCEPT !.partitions = parsed.partitions])
                     /\ mpc' = "kpartx"
    /\ UNCHANGED notMount

\* Kpartx::new(source), kpartx.rs 16-45. run: how `kpartx -avs` ended.
KpartxNew(run, utf8Ok, out) ==
    /\ mpc = "start"
    /\ mop' = "Kpartx::new"
    /\ kout' = IF run = "ok" /\ utf8Ok THEN Some(out) ELSE None
    /\ mnt' = None
    /\ LET s1 == RunMap(sys, run = "ok")
           k == [source |-> Some(Image), partitions |-> <<>>]
           parsed == ParsePartitions(out, <<>>)
       IN  IF run # "ok"
           THEN /\ sys' = DropTempPath(s1)
                /\ mres' = Err(IF run = "spawn" THEN "kpartx -avs failed" ELSE "process exited with failure")
                /\ mpc' = "end" /\ kpx' = None
           ELSE \E delOk \in BOOLEAN :
                IF ~utf8Ok
                THEN /\ sys' = DropKpartx(s1, k, delOk)
                     /\ mres' = Err("invalid utf-8 sequence")
                     /\ mpc' = "end" /\ kpx' = None
                ELSE IF parsed.panic
                THEN /\ sys' = DropKpartx(s1, [k EXCEPT !.partitions = parsed.partitions], delOk)
                     /\ mres' = Err("panic: called Option::unwrap() on a None value")
                     /\ mpc' = "end" /\ kpx' = None
                ELSE IF parsed.partitions = <<>>
                THEN /\ sys' = DropKpartx(s1, k, delOk)
                     /\ mres' = Err("no partitions detected from kpartx output")
                     /\ mpc' = "end" /\ kpx' = None
                ELSE /\ delOk
                     /\ sys' = s1
                     /\ mres' = Ok(<<"Kpartx">>)
                     /\ kpx' = Some([k EXCEPT !.partitions = parsed.partitions])
                     /\ mpc' = "kpartx"
    /\ UNCHANGED notMount

\* Kpartx::delete(self), kpartx.rs 51-55. On an error the taken `source` is
\* dropped, and then `self`, whose `source` is None by then.
KpartxDelete(delOk) ==
    /\ mpc = "kpartx"
    /\ mop' = "Kpartx::delete"
    /\ LET k == kpx[1]
           taken == [k EXCEPT !.source = None]
           s1 == Cleanup(sys, delOk)
       IN  IF delOk
           THEN /\ sys' = DropKpartx(s1, taken, delOk)
                /\ mres' = Ok(Image)
           ELSE /\ sys' = DropKpartx(DropTempPath(s1), taken, delOk)
                /\ mres' = Err("process exited with failure")
    /\ kpx' = None
    /\ mpc' = "end"
    /\ UNCHANGED <<kout, mnt>>
    /\ UNCHANGED notMount

\* The caller drops the Kpartx it holds.
KpartxDropped(delOk) ==
    /\ mpc = "kpartx"
    /\ mop' = "drop Kpartx"
    /\ sys' = DropKpartx(sys, kpx[1], delOk)
    /\ kpx' = None
    /\ mpc' = "end"
    /\ UNCHANGED <<kout, mnt, mres>>
    /\ UNCHANGED notMount

\* MountPoint::new(kpartx, tempdir_in), mount.rs 17-36. On an error `path`
\* (if created) and then `kpartx` are dropped.
MountPointNew(dirOk, mountOk, delOk) ==
    /\ mpc = "kpartx"
    /\ Invocations(sys.log, "mount") < MaxMounts
    /\ mop' = "MountPoint::new"
    /\ kpx' = None
    /\ LET k == kpx[1]
       IN  IF ~dirOk
           THEN /\ sys' = DropKpartx(sys, k, delOk)
                /\ mres' = Err("tempdir failed")
                /\ mnt' = None /\ mpc' = "end"
           ELSE LET s1 == RunMount(MakeTempDir(sys), MainPartition(k), mountOk)
                IN  IF ~mountOk
                    THEN /\ sys' = DropKpartx(DropTempDir(s1), k, delOk)
                         /\ mres' = Err("process exited with failure")
                         /\ mnt' = None /\ mpc' = "end"
                    ELSE /\ delOk
                         /\ sys' = s1
                         /\ mres' = Ok(<<"MountPoint">>)
                         /\ mnt' = Some([path |-> MountDir, kpartx |-> Some(k)])
                         /\ mpc' = "mounted"
    /\ UNCHANGED kout
    /\ UNCHANGED notMount

\* MountPoint::unmount that leaves the Kpartx in `self` while it runs umount.
UnmountCallArmed(st, m, umountOk, delOk) ==
    LET k == m.kpartx[1]
        s1 == Unmount(st, umountOk)
    IN  IF umountOk
        THEN [sys |-> DropMountPoint(s1, m, umountOk, delOk), kpartx |-> Some(k)]
        ELSE [sys |-> DropMountPoint(s1, m, umountOk, delOk), kpartx |-> None]

\* MountPoint::unmount(self), mount.rs 42-46, as a value: the system after it,
\* and the Kpartx it returns (None on an error). On an error the taken
\* `kpartx` is dropped, and then `self`, whose `kpartx` is None by then.
UnmountCall(st, m, umountOk, delOk) ==
    LET k == m.kpartx[1]
        taken == [m EXCEPT !.kpartx = None]
        s1 == Unmount(st, umountOk)
    IN  IF umountOk
        THEN [sys |-> DropMountPoint(s1, taken, umountOk, delOk), kpartx |-> Some(k)]
        ELSE [sys |-> DropMountPoint(DropKpartx(s1, k, delOk), taken, umountOk, delOk),
              kpartx |-> None]

\* The caller calls MountPoint::unmount and keeps the Kpartx.
MountPointUnmount(umountOk, delOk) ==
    /\ mpc = "mounted"
    /\ mop' = "MountPoint::unmount"
    /\ LET r == UnmountCall(sys, mnt[1], umountOk, delOk)
       IN  /\ sys' = r.sys
           /\ kpx' = r.kpartx
           /\ IF umountOk
              THEN delOk /\ mres' = Ok(<<"Kpartx">>) /\ mpc' = "kpartx"
              ELSE mres' = Err("process exited with failure") /\ mpc' = "end"
    /\ mnt' = None
    /\ UNCHANGED kout
    /\ UNCHANGED notMount

\* A drop that reports a failed cleanup as the result.
MountPointDroppedReporting(umountOk, delOk) ==
    /\ mpc = "mounted"
    /\ mop' = "drop MountPoint"
    /\ sys' = DropMountPoint(sys, mnt[1], umountOk, delOk)
    /\ mnt' = None
    /\ mpc' = "end"
    /\ mres' = IF umountOk /\ delOk THEN mres ELSE Err("process exited with failure")
    /\ UNCHANGED <<kout, kpx>>
    /\ UNCHANGED notMount

\* The MountPoint (or the ImageContext holding it) is dropped: the handle
\* goes out of scope, or a later step returns an error.
MountPointDropped(umountOk, delOk) ==
    /\ mpc = "mounted"
    /\ mop' = "drop MountPoint"
    /\ sys' = DropMountPoint(sys, mnt[1], umountOk, delOk)
    /\ mnt' = None
    /\ mpc' = "end"
    /\ UNCHANGED <<kout, kpx, mres>>
    /\ UNCHANGED notMount

\* ImageContext::finish(self), context.rs 37-42.
ImageContextFinish(umountOk, delOk, persistOk) ==
    /\ mpc = "mounted"
    /\ mop' = "ImageContext::finish"
    /\ LET r == UnmountCall(sys, mnt[1], umountOk, delOk)
       IN  IF r.kpartx = None
           THEN /\ persistOk
                /\ sys' = r.sys
                /\ mres' = Err("process exited with failure")
           ELSE LET k == r.kpartx[1]
                    taken == [k EXCEPT !.source = None]
                    s1 == Cleanup(r.sys, delOk)
                IN  IF ~delOk
                    THEN /\ persistOk
                         /\ sys' = DropKpartx(DropTempPath(s1), taken, delOk)
                         /\ mres' = Err("process exited with failure")
                    ELSE LET s2 == DropKpartx(s1, taken, delOk)
                         IN  IF persistOk
                             THEN /\ sys' = [s2 EXCEPT !.image = "persisted"]
                                  /\ mres' = Ok(<<>>)
                             ELSE /\ sys' = DropTempPath(s2)
                                  /\ mres' = Err("persist failed")
    /\ mnt' = None
    /\ mpc' = "end"
    /\ UNCHANGED <<kout, kpx>>
    /\ UNCHANGED notMount

\* An interrupt signal arrives while a Kpartx or a MountPoint is held.
\* main (main.rs 49-53) installs no handler and races nothing against the
\* signal, so the signal's default action ends the process: no destructor
\* runs and no further command is invoked.
Interrupted ==
    /\ mpc \in {"kpartx", "mounted"}
    /\ mop' = "interrupt"
    /\ mpc' = "killed"
    /\ kpx' = None
    /\ mnt' = None
    /\ UNCHANGED <<kout, sys, mres>>
    /\ UNCHANGED notMount

MountNext ==
    \/ \E run \in {"ok", "spawn", "exit"}, utf8Ok \in BOOLEAN, out \in KpartxOutputs :
          KpartxNew(run, utf8Ok, out)
    \/ \E delOk \in BOOLEAN : KpartxDelete(delOk)
    \/ \E delOk \in BOOLEAN : KpartxDropped(delOk)
    \/ \E dirOk, mountOk, delOk \in BOOLEAN : MountPointNew(dirOk, mountOk, delOk)
    \/ \E umountOk, delOk \in BOOLEAN : MountPointUnmount(umountOk, delOk)
    \/ \E umountOk, delOk \in BOOLEAN : MountPointDropped(umountOk, delOk)
    \/ \E umountOk, delOk, persistOk \in BOOLEAN : ImageContextFinish(umountOk, delOk, persistOk)
    \/ Interrupted

(***************************************************************************)
(*                     CommandExt::with_sudo (command.rs)                  *)
(***************************************************************************)

\* The most arguments given to one command.
MaxArgs == 2

Programs == {"kpartx", "mount"}
ArgValues == {"-d", "image.tmp"}
Dirs == {"/work"}
EnvKeys == {"LANG", "PATH"}
EnvValues == {"C"}

\* std::process::Command::new(program): no arguments, no working directory,
\* no explicit environment setting. `envs` maps each variable with an
\* explicit setting to Some(value), or to None when it is marked for removal.
CommandNew(program) ==
    [program |-> program, args |-> <<>>, dir |-> None, envs |-> <<>>]

\* A function extended or overwritten at one key.
Put(f, k, v) == [x \in (DOMAIN f) \cup {k} |-> IF x = k THEN v ELSE f[x]]

\* Command::arg, Command::current_dir, Command::env, Command::env_remove.
Arg(c, a) == [c EXCEPT !.args = Append(@, a)]
CurrentDir(c, d) == [c EXCEPT !.dir = Some(d)]
Env(c, k, v) == [c EXCEPT !.envs = Put(@, k, Some(v))]
EnvRemove(c, k) == [c EXCEPT !.envs = Put(@, k, None)]

\* Command::args: one arg call for each element.
RECURSIVE Args(_, _)
Args(c, as) == IF as = <<>> THEN c ELSE Args(Arg(c, Head(as)), Tail(as))

\* The loop body that forwards only the variables set to a value.
CopyEnvSetOnly(c, k, v) == IF v # None THEN Env(c, k, v[1]) ELSE c

\* command.rs 34-38: the body of the loop over get_envs().
CopyEnv(c, k, v) == IF v # None THEN Env(c, k, v[1]) ELSE EnvRemove(c, k)

\* command.rs 33-39: the loop over get_envs(), keys in order.
RECURSIVE CopyEnvs(_, _, _)
CopyEnvs(c, envs, keys) ==
    IF keys = {} THEN c
    ELSE LET k == CHOOSE x \in keys : TRUE
         IN  CopyEnvs(CopyEnv(c, k, envs[k]), envs, keys \ {k})

\* command.rs 24-42: with_sudo.
WithSudo(self) ==
    LET c1 == CommandNew("sudo")
        c2 == Arg(c1, self.program)
        c3 == Args(c2, self.args)
        c4 == IF self.dir # None THEN CurrentDir(c3, self.dir[1]) ELSE c3
    IN  CopyEnvs(c4, self.envs, DOMAIN self.envs)

SudoInit ==
    /\ spc = "new"
    /\ cmd \in {CommandNew(p) : p \in Programs}
    /\ wrapped = None

SudoIdle ==
    /\ spc = "idle"
    /\ cmd = CommandNew("")
    /\ wrapped = None

\* The caller builds the command.
CallArg(a) ==
    /\ spc = "new"
    /\ Len(cmd.args) < MaxArgs
    /\ cmd' = Arg(cmd, a)
    /\ UNCHANGED <<spc, wrapped>>
    /\ UNCHANGED notSudo

CallCurrentDir(d) ==
    /\ spc = "new"
    /\ cmd' = CurrentDir(cmd, d)
    /\ UNCHANGED <<spc, wrapped>>
    /\ UNCHANGED notSudo

CallEnv(k, v) ==
    /\ spc = "new"
    /\ cmd' = Env(cmd, k, v)
    /\ UNCHANGED <<spc, wrapped>>
    /\ UNCHANGED notSudo

CallEnvRemove(k) ==
    /\ spc = "new"
    /\ cmd' = EnvRemove(cmd, k)
    /\ UNCHANGED <<spc, wrapped>>
    /\ UNCHANGED notSudo

\* The caller calls with_sudo on the command it built.
CallWithSudo ==
    /\ spc = "new"
    /\ wrapped' = Some(WithSudo(cmd))
    /\ spc' = "wrapped"
    /\ UNCHANGED cmd
    /\ UNCHANGED notSudo

SudoNext ==
    \/ \E a \in ArgValues : CallArg(a)
    \/ \E d \in Dirs : CallCurrentDir(d)
    \/ \E k \in EnvKeys, v \in EnvValues : CallEnv(k, v)
    \/ \E k \in EnvKeys : CallEnvRemove(k)
    \/ CallWithSudo

(***************************************************************************)
(*                  image names (ec2.rs, oxide.rs, nix/mod.rs)             *)
(***************************************************************************)

\* The longest package name tried.
MaxNameLen == 150

\* ec2.rs 24, oxide.rs 44: `len = 128 - (32 + 1)`.
ImageNameMax == 128
StoreHashLen == 32
\* oxide.rs 47: `image_name.truncate(63)`.
OxideNameMax == 63

\* Package names: letters, with an underscore nowhere, first or last.
PackageName(len, under) == [i \in 1..len |-> IF i = under THEN "_" ELSE "a"]
PackageNames ==
    UNION {{PackageName(len, under) : under \in {0, 1, len}} : len \in 1..MaxNameLen}

\* nix/mod.rs 119-123: the first 32 characters of the store path's name.
StoreHashes ==
    { [i \in 1..StoreHashLen |-> "h"],
      [i \in 1..StoreHashLen |-> IF i % 2 = 0 THEN "x" ELSE "y"] }

\* `{name:.len$}`: at most len characters of name.
Precision(s, len) == SubSeq(s, 1, Min(Len(s), len))
\* str::replace(from, to), one character for another.
Replace(s, from, to) == [i \in 1..Len(s) |-> IF s[i] = from THEN to ELSE s[i]]
\* String::truncate(len).
Truncate(s, len) == IF Len(s) > len THEN SubSeq(s, 1, len) ELSE s

\* The name cut as a whole to the maximum, not its package-name part.
Ec2ImageNameCutWhole(name, hash) ==
    Truncate(name \o <<"-">> \o hash, ImageNameMax)

\* ec2.rs 20-25 (and main.rs 76-81): the EC2 image name.
Ec2ImageName(name, hash) ==
    Precision(name, ImageNameMax - (StoreHashLen + 1)) \o <<"-">> \o hash

\* oxide.rs 40-47: the Oxide image name.
OxideImageName(name, hash) ==
    Truncate(Replace(Precision(name, ImageNameMax - (StoreHashLen + 1)) \o <<"-">> \o hash,
                     "_", "-"),
             OxideNameMax)

\* oxide.rs 69-70, 146, 195-196: the names derived from the image name.
\* The disk names are truncated, the snapshot name is not.
OxideDiskName(image) ==
    Truncate(image \o <<"-", "d", "i", "s", "k">>, OxideNameMax)
OxideSnapshotName(image) ==
    image \o <<"-", "s", "n", "a", "p">>
OxideInstanceDiskName(image) ==
    Truncate(image \o <<"-", "i", "n", "s", "t", "a", "n", "c", "e", "-", "d", "i", "s", "k">>,
             OxideNameMax)

\* oxide.rs 79, 154, 164, 173, 208: `try_into` a Name, which holds at most
\* 63 characters.
NameTryInto(s) == IF Len(s) <= OxideNameMax THEN Ok(s) ELSE Err("name too long")

NameInit ==
    /\ npc = "input"
    /\ pkgName \in PackageNames
    /\ storeHash \in StoreHashes
    /\ provider = "none"
    /\ imageName = <<>>

NameIdle ==
    /\ npc = "idle"
    /\ pkgName = <<>>
    /\ storeHash = <<>>
    /\ provider = "none"
    /\ imageName = <<>>

\* create_ec2_image computes its image name.
NameForEc2 ==
    /\ npc = "input"
    /\ imageName' = Ec2ImageName(pkgName, storeHash)
    /\ provider' = "ec2"
    /\ npc' = "named"
    /\ UNCHANGED <<pkgName, storeHash>>
    /\ UNCHANGED notName

\* create_oxide_image computes its image name.
NameForOxide ==
    /\ npc = "input"
    /\ imageName' = OxideImageName(pkgName, storeHash)
    /\ provider' = "oxide"
    /\ npc' = "named"
    /\ UNCHANGED <<pkgName, storeHash>>
    /\ UNCHANGED notName

NameNext ==
    \/ NameForEc2
    \/ NameForOxide

(***************************************************************************)
(*          publishing: create_ec2_image, create_oxide_image               *)
(***************************************************************************)

\* How many publish invocations with the same provenance run.
MaxRuns == 2
Runs == 1..MaxRuns

\* The provenance all the invocations share.
PubPackage == <<"s", "_", "v">>
PubHash == [i \in 1..StoreHashLen |-> "h"]
PubImageName(prov) ==
    IF prov = "ec2" THEN Ec2ImageName(PubPackage, PubHash)
    ELSE OxideImageName(PubPackage, PubHash)

\* The remote calls of one invocation, in order. ec2.rs 31-116; oxide.rs
\* 53-218, the last call only with `deploy`.
\* The calls with the image registered before the snapshot is waited for.
Ec2CallsRegisterEarly ==
    <<"describe_images", "upload_snapshot", "register_image", "wait_snapshot",
      "create_tags">>

Ec2Calls ==
    <<"describe_images", "upload_snapshot", "wait_snapshot", "register_image",
      "create_tags">>
OxideCalls(deploy) ==
    <<"image_list", "disk_create", "import_start", "import_write", "import_stop",
      "finalize_import", "snapshot_view", "image_create", "image_list">>
    \o (IF deploy THEN <<"instance_create">> ELSE <<>>)
PubCalls(prov, deploy) == IF prov = "ec2" THEN Ec2Calls ELSE OxideCalls(deploy)

ImageId(n) == <<"image", n>>
InstanceId(n) == <<"instance", n>>

\* An image of the registry.
RegImage(id, name, owner) == [id |-> id, name |-> name, owner |-> owner]

\* The registries an invocation can meet: empty, or holding an image of the
\* same name that is not the caller's (another account, another project).
Registries(prov) ==
    { [images |-> imgs, snapshots |-> 0, disks |-> 0, instances |-> 0, tagged |-> {}] :
        imgs \in {<<>>, <<RegImage(ImageId(0), PubImageName(prov), "other")>>} }

\* The provenance's upstream inputs: any of two inputs, each with or without
\* a revision.
FlakeNames == {"nixpkgs", "local"}
FlakeMeta(name, withRev) ==
    [last_modified |-> IF name = "nixpkgs" THEN 1700 ELSE 0,
     rev |-> IF withRev THEN Some(<<"rev-", name>>) ELSE None]
FlakeRevsTried ==
    UNION {{[n \in present |-> FlakeMeta(n, n \in revved)] : revved \in SUBSET present} :
            present \in SUBSET FlakeNames}

PubVersion == [major |-> 0, minor |-> 1, patch |-> 0]
PubMetadata(flakeRevs) ==
    [flake_revs |-> flakeRevs,
     package |-> [name |-> PubPackage, version |-> PubVersion],
     store_hash |-> PubHash]

\* u64::to_string: the decimal digits, most significant first.
Digits == <<"0", "1", "2", "3", "4", "5", "6", "7", "8", "9">>
RECURSIVE Decimal(_)
Decimal(n) ==
    IF n < 10 THEN <<Digits[n + 1]>>
    ELSE Append(Decimal(n \div 10), Digits[(n % 10) + 1])

\* semver::Version::to_string
VersionString(v) ==
    Decimal(v.major) \o <<".">> \o Decimal(v.minor) \o <<".">> \o Decimal(v.patch)

\* The `tag!` macro (ec2.rs 94-103): the key gets the prefix `dropkick:`.
Tag(key, value) == [key |-> <<"dropkick:">> \o key, value |-> value]

\* Tags with a revision tag for every input, empty when it has no revision.
Ec2TagsRevAlways(md) ==
    {Tag(<<"package.name">>, md.package.name),
     Tag(<<"package.version">>, VersionString(md.package.version)),
     Tag(<<"store_hash">>, md.store_hash)}
    \cup {Tag(<<"flake.", n, ".last_modified">>, Decimal(md.flake_revs[n].last_modified)) :
            n \in DOMAIN md.flake_revs}
    \cup {Tag(<<"flake.", n, ".rev">>,
               IF md.flake_revs[n].rev = None THEN <<>> ELSE md.flake_revs[n].rev[1]) :
            n \in DOMAIN md.flake_revs}

\* ec2.rs 104-115: the tags of the create_tags request.
Ec2Tags(md) ==
    {Tag(<<"package.name">>, md.package.name),
     Tag(<<"package.version">>, VersionString(md.package.version)),
     Tag(<<"store_hash">>, md.store_hash)}
    \cup {Tag(<<"flake.", n, ".last_modified">>, Decimal(md.flake_revs[n].last_modified)) :
            n \in DOMAIN md.flake_revs}
    \cup {Tag(<<"flake.", n, ".rev">>, md.flake_revs[n].rev[1]) :
            n \in {x \in DOMAIN md.flake_revs : md.flake_revs[x].rev # None}}

\* ec2.rs 31-39: describe_images, owners("self"), filter on the name, first
\* image; oxide.rs 53-61: image_list of the project, first item of that name.
FindImage(reg, name) ==
    LET hits == {i \in 1..Len(reg.images) :
                    reg.images[i].owner = "self" /\ reg.images[i].name = name}
    IN  IF hits = {} THEN None
        ELSE Some(reg.images[CHOOSE i \in hits : \A j \in hits : i <= j].id)

\* register_image (ec2.rs 64-88), image_create (oxide.rs 168-180).
RegisterImage(reg, name) ==
    [reg EXCEPT !.images = Append(@, RegImage(ImageId(Len(@) + 1), name, "self"))]

PubInit ==
    /\ pprov \in {"ec2", "oxide"}
    /\ pdeploy \in IF pprov = "oxide" THEN BOOLEAN ELSE {FALSE}
    /\ registry \in Registries(pprov)
    /\ pst = [r \in Runs |-> "idle"]
    /\ pidx = [r \in Runs |-> 0]
    /\ pimg = [r \in Runs |-> None]
    /\ pseen = [r \in Runs |-> None]
    /\ pres = [r \in Runs |-> Err("")]
    /\ plog = [r \in Runs |-> <<>>]
    /\ prec = [r \in Runs |-> FALSE]
    /\ pmeta \in FlakeRevsTried
    /\ ptags = [r \in Runs |-> {}]

PubIdle ==
    /\ pprov = "none"
    /\ pdeploy = FALSE
    /\ registry = [images |-> <<>>, snapshots |-> 0, disks |-> 0, instances |-> 0,
                   tagged |-> {}]
    /\ pst = [r \in Runs |-> "idle"]
    /\ pidx = [r \in Runs |-> 0]
    /\ pimg = [r \in Runs |-> None]
    /\ pseen = [r \in Runs |-> None]
    /\ pres = [r \in Runs |-> Err("")]
    /\ plog = [r \in Runs |-> <<>>]
    /\ prec = [r \in Runs |-> FALSE]
    /\ pmeta = <<>>
    /\ ptags = [r \in Runs |-> {}]

\* The results the invocations before this one returned with Ok.
EarlierOk == {pres[q].val : q \in {q \in Runs : pst[q] = "done" /\ pres[q].ok}}

\* An invocation starts: create_iso has built the image, image_name is
\* computed. pseen notes an identifier an earlier invocation returned.
PubStart(r) ==
    /\ pst[r] = "idle"
    /\ pst' = [pst EXCEPT ![r] = "running"]
    /\ pseen' = [pseen EXCEPT ![r] =
                   IF EarlierOk = {} THEN None ELSE Some(CHOOSE v \in EarlierOk : TRUE)]
    /\ prec' = [prec EXCEPT ![r] =
                  /\ \A q \in Runs : pst[q] # "running"
                  /\ \E q \in Runs : pst[q] = "done" /\ ~pres[q].ok /\ pidx[q] > 1
                  /\ FindImage(registry, PubImageName(pprov)) = None]
    /\ UNCHANGED <<pprov, pdeploy, registry, pidx, pimg, pres, plog, pmeta, ptags>>
    /\ UNCHANGED notPub

\* The invocation returns.
PubReturn(r, result) ==
    /\ pres' = [pres EXCEPT ![r] = result]
    /\ pst' = [pst EXCEPT ![r] = "done"]

PubContinue ==
    /\ UNCHANGED <<pres, pst>>

\* A call the provider has to refuse. oxide.rs 90-157 address the disk by
\* its name alone, so a project holds one disk of a name: disk_create
\* (oxide.rs 74-87) of a name that is taken fails.
Refused(reg, prov, call) ==
    prov = "oxide" /\ call = "disk_create" /\ reg.disks > 0

\* The next remote call of invocation r, which succeeds or fails (`?`).
PubStep(r, ok) ==
    /\ pst[r] = "running"
    /\ ok => ~Refused(registry, pprov, PubCalls(pprov, pdeploy)[pidx[r] + 1])
    /\ plog' = [plog EXCEPT ![r] =
                  Append(@, [call |-> PubCalls(pprov, pdeploy)[pidx[r] + 1], ok |-> ok,
                             refused |-> Refused(registry, pprov,
                                                 PubCalls(pprov, pdeploy)[pidx[r] + 1])])]
    /\ LET call == PubCalls(pprov, pdeploy)[pidx[r] + 1]
           name == PubImageName(pprov)
           found == FindImage(registry, name)
       IN  /\ pidx' = [pidx EXCEPT ![r] = @ + 1]
           /\ IF ~ok
              THEN /\ PubReturn(r, Err(call))
                   /\ UNCHANGED <<registry, pimg>>
              ELSE IF call \in {"describe_images", "image_list"} /\ pidx[r] = 0
              THEN /\ IF found # None THEN PubReturn(r, Ok(found[1])) ELSE PubContinue
                   /\ UNCHANGED <<registry, pimg>>
              ELSE IF call \in {"upload_snapshot", "finalize_import"}
              THEN /\ registry' = [registry EXCEPT !.snapshots = @ + 1]
                   /\ PubContinue
                   /\ UNCHANGED pimg
              ELSE IF call = "disk_create"
              THEN /\ registry' = [registry EXCEPT !.disks = @ + 1]
                   /\ PubContinue
                   /\ UNCHANGED pimg
              ELSE IF call = "register_image"
              THEN /\ registry' = RegisterImage(registry, name)
                   /\ pimg' = [pimg EXCEPT ![r] = Some(ImageId(Len(registry.images) + 1))]
                   /\ PubContinue
              ELSE IF call = "image_create"
              THEN /\ registry' = RegisterImage(registry, name)
                   /\ PubContinue
                   /\ UNCHANGED pimg
              ELSE IF call = "create_tags"
              THEN /\ registry' = [registry EXCEPT !.tagged = @ \cup {pimg[r][1]}]
                   /\ PubReturn(r, Ok(pimg[r][1]))
                   /\ UNCHANGED pimg
              ELSE IF call = "image_list"
              THEN /\ pimg' = [pimg EXCEPT ![r] = found]
                   /\ IF pdeploy THEN PubContinue ELSE PubReturn(r, Ok(found[1]))
                   /\ UNCHANGED registry
              ELSE IF call = "instance_create"
              THEN /\ registry' = [registry EXCEPT !.instances = @ + 1]
                   /\ PubReturn(r, Ok(InstanceId(registry.instances + 1)))
                   /\ UNCHANGED pimg
              ELSE /\ PubContinue
                   /\ UNCHANGED <<registry, pimg>>
    /\ ptags' = IF ok /\ PubCalls(pprov, pdeploy)[pidx[r] + 1] = "create_tags"
                THEN [ptags EXCEPT ![r] = Ec2Tags(PubMetadata(pmeta))]
                ELSE ptags
    /\ UNCHANGED <<pprov, pdeploy, pseen, prec, pmeta>>
    /\ UNCHANGED notPub

PubNext ==
    \/ \E r \in Runs : PubStart(r)
    \/ \E r \in Runs, ok \in BOOLEAN : PubStep(r, ok)

(***************************************************************************)
(*              deployment-stack update: polling the stack status          *)
(***************************************************************************)

\* The attempt ceiling.
MaxAttempts == 60

StackComplete == "UPDATE_COMPLETE"
StackFatal == {"UPDATE_FAILED", "UPDATE_ROLLBACK_FAILED", "UPDATE_ROLLBACK_COMPLETE"}
StackOther ==
    {"UPDATE_IN_PROGRESS", "UPDATE_COMPLETE_CLEANUP_IN_PROGRESS",
     "UPDATE_ROLLBACK_IN_PROGRESS"}
StackStatuses == {StackComplete} \cup StackFatal \cup StackOther

\* A poll that takes rollback-complete for a state still in progress.
PollOutcomeRollbackWaits(status, attempt) ==
    IF status = StackComplete THEN "success"
    ELSE IF status \in StackFatal \ {"UPDATE_ROLLBACK_COMPLETE"} THEN "failure"
    ELSE IF attempt >= MaxAttempts THEN "timeout"
    ELSE "again"

\* What one poll decides, given the status it saw and its number.
PollOutcome(status, attempt) ==
    IF status = StackComplete THEN "success"
    ELSE IF status \in StackFatal THEN "failure"
    ELSE IF attempt >= MaxAttempts THEN "timeout"
    ELSE "again"

StackInit ==
    /\ kpc = "polling"
    /\ polls = 0
    /\ kstatus = "none"
    /\ kres = Err("")

StackIdle ==
    /\ kpc = "idle"
    /\ polls = 0
    /\ kstatus = "none"
    /\ kres = Err("")

\* One poll of the stack status.
PollStack(status) ==
    /\ kpc = "polling"
    /\ polls' = polls + 1
    /\ kstatus' = status
    /\ LET outcome == PollOutcome(status, polls + 1)
       IN  /\ kpc' = IF outcome = "again" THEN "polling" ELSE "done"
           /\ kres' = IF outcome = "success" THEN Ok(<<"stack updated">>)
                      ELSE IF outcome = "failure" THEN Err("stack update failed")
                      ELSE IF outcome = "timeout" THEN Err("timed out")
                      ELSE kres
    /\ UNCHANGED notStack

StackNext ==
    \E status \in StackStatuses : PollStack(status)

(***************************************************************************)
(*                NixosBuilder::build  (src/src/nix/mod.rs)                *)
(*                                                                         *)
(* A JSON object is a function from its keys; a key the object lacks is    *)
(* not in the domain.  A field that may be null holds <<>> for null and    *)
(* <<v>> for a value.                                                      *)
(***************************************************************************)

\* The longest final path component tried.
MaxFileName == 34
\* The length of the store hash: `s.get(0..32)`.
HashEnd == 32

EmptyMap == [k \in {} |-> <<>>]
Merge(f, g) == [k \in DOMAIN f \cup DOMAIN g |-> IF k \in DOMAIN f THEN f[k] ELSE g[k]]
Without(f, keys) == [k \in DOMAIN f \ keys |-> f[k]]

\* A constant that refreshes the base package set only.
RemoveOnlyNixpkgs == {"nixpkgs"}

REMOVE_FROM_FLAKE_LOCK == {"nixpkgs", "rust-overlay"}

\* serde, Deserialize for FlakeLocked: `metadata` takes lastModified and rev,
\* `extra` takes every other key.
ParseLocked(doc) ==
    [metadata |-> [last_modified |-> doc["lastModified"],
                   rev |-> IF "rev" \in DOMAIN doc THEN <<doc["rev"]>> ELSE <<>>],
     extra |-> Without(doc, {"lastModified", "rev"})]

\* serde, Serialize for FlakeLocked: rev is skipped when it is None.
WriteLocked(l) ==
    Merge(Merge([lastModified |-> l.metadata.last_modified],
                IF l.metadata.rev = <<>> THEN EmptyMap ELSE [rev |-> l.metadata.rev[1]]),
          l.extra)

\* serde, Deserialize for FlakeNode: `inputs` defaults to empty, `locked` is
\* None when the key is missing or null.
ParseNode(doc) ==
    [inputs |-> IF "inputs" \in DOMAIN doc THEN doc["inputs"] ELSE EmptyMap,
     locked |-> IF "locked" \in DOMAIN doc /\ doc["locked"] # <<>>
                THEN <<ParseLocked(doc["locked"][1])>> ELSE <<>>,
     extra |-> Without(doc, {"inputs", "locked"})]

\* serde, Serialize for FlakeNode: `inputs` is skipped when empty, `locked`
\* is always written (null for None).
WriteNode(n) ==
    Merge(Merge(IF DOMAIN n.inputs = {} THEN EmptyMap ELSE [inputs |-> n.inputs],
                [locked |-> IF n.locked = <<>> THEN <<>>
                            ELSE <<WriteLocked(n.locked[1])>>]),
          n.extra)

\* serde, Deserialize and Serialize for FlakeLock.
ParseLock(doc) ==
    [nodes |-> [n \in DOMAIN doc["nodes"] |-> ParseNode(doc["nodes"][n])],
     root |-> doc["root"],
     extra |-> Without(doc, {"nodes", "root"})]

WriteLock(l) ==
    Merge([nodes |-> [n \in DOMAIN l.nodes |-> WriteNode(l.nodes[n])],
           root |-> l.root],
          l.extra)

\* `for item in REMOVE_FROM_FLAKE_LOCK { flake_lock.nodes.remove(*item); }`
RemoveNodes(l) == [l EXCEPT !.nodes = Without(@, REMOVE_FROM_FLAKE_LOCK)]

\* `for item in REMOVE_FROM_FLAKE_LOCK { root.inputs.remove(*item); }`
RemoveRootInputs(l) ==
    [l EXCEPT !.nodes[l.root].inputs = Without(@, REMOVE_FROM_FLAKE_LOCK)]

\* The lock files tried: the nodes present, the root's inputs, the name of the
\* root and the unknown top-level field `version` vary.
NodeNames == {"root", "nixpkgs", "rust-overlay", "flake-utils"}
InputNames == {"nixpkgs", "rust-overlay", "flake-utils"}

NodeDoc(n, rootInputs) ==
    IF n = "root"
    THEN IF rootInputs = {} THEN EmptyMap
         ELSE [inputs |-> [i \in rootInputs |-> <<i>>]]
    ELSE IF n = "nixpkgs"
    THEN [locked |-> <<[lastModified |-> 3, rev |-> "rev-nixpkgs", narHash |-> "h1"]>>,
          original |-> "nixpkgs"]
    ELSE IF n = "rust-overlay"
    THEN [inputs |-> [i \in {"nixpkgs"} |-> <<"nixpkgs">>],
          locked |-> <<[lastModified |-> 4, rev |-> "rev-overlay", narHash |-> "h2"]>>,
          original |-> "rust-overlay"]
    ELSE [inputs |-> [i \in {"systems"} |-> <<"systems">>],
          locked |-> <<[lastModified |-> 5, narHash |-> "h3"]>>,
          original |-> "flake-utils"]

LockDoc(present, rootInputs, root, versioned) ==
    Merge([nodes |-> [n \in present |-> NodeDoc(n, rootInputs)], root |-> root],
          IF versioned THEN [version |-> 7] ELSE EmptyMap)

EmbeddedLocks ==
    {LockDoc(present, rootInputs, root, versioned) :
        present \in SUBSET NodeNames, rootInputs \in SUBSET InputNames,
        root \in {"root", "nixpkgs"}, versioned \in BOOLEAN}

\* What `nix build` leaves in flake.lock: the inputs that were removed are
\* locked again, with or without a revision.
Relock(doc, withRev) ==
    [doc EXCEPT !["nodes"] =
        Merge([n \in REMOVE_FROM_FLAKE_LOCK |->
                 [locked |-> <<Merge([lastModified |-> 9],
                                     IF withRev THEN [rev |-> "rev-new"] ELSE EmptyMap)>>]],
              @)]

\* Lines 110-117: the metadata of every node that has `locked`.
FlakeRevs(doc) ==
    LET l == ParseLock(doc)
    IN  [n \in {x \in DOMAIN l.nodes : l.nodes[x].locked # <<>>} |->
            l.nodes[n].locked[1].metadata]

\* Paths are sequences of components; a component is a sequence of character
\* codes, or ParentDir for `..`.  Store paths are ASCII: a character is a byte.
ParentDir == <<0>>
FileNameOfLen(n) == [i \in 1..n |-> i]
StoreDir == <<FileNameOfLen(3), FileNameOfLen(5)>>
ResultPaths ==
    {Append(StoreDir, FileNameOfLen(n)) : n \in 1..MaxFileName}
        \cup {<<>>, Append(StoreDir, ParentDir)}

\* Utf8Path::file_name: the final component, unless the path is empty or
\* ends in `..`.
FileName(path) ==
    IF path = <<>> \/ path[Len(path)] = ParentDir THEN None
    ELSE Some(path[Len(path)])

\* A `get` that stops at the end of the string.
StrGetClamped(s, from, to) == Some(SubSeq(s, from + 1, Min(to, Len(s))))

\* str::get(from..to): None when the range runs past the end.
StrGet(s, from, to) ==
    IF from <= to /\ to <= Len(s) THEN Some(SubSeq(s, from + 1, to)) ELSE None

\* Lines 119-123: `file_name().and_then(|s| s.get(0..32))`.
StoreHashOf(path) ==
    IF FileName(path) = None THEN None ELSE StrGet(FileName(path)[1], 0, HashEnd)

BuildPackage == [name |-> "beachball", version |-> "0.1.0"]

BuildInit ==
    /\ bpc = "start"
    /\ embedded = EmptyMap
    /\ written = None
    /\ nixRuns = 0
    /\ resultPath = None
    /\ bres = Err("")
    /\ bsteps = <<>>
    /\ outFile = FALSE

BuildIdle ==
    /\ bpc = "idle"
    /\ embedded = EmptyMap
    /\ written = None
    /\ nixRuns = 0
    /\ resultPath = None
    /\ bres = Err("")
    /\ bsteps = <<>>
    /\ outFile = FALSE

\* Lines 54-76: the embedded lock file is parsed, the refreshed inputs are
\* removed from it, and it is written next to flake.nix and input.json.
BuildPrepare(doc) ==
    /\ bpc = "start"
    /\ embedded' = doc
    /\ LET removed == RemoveNodes(ParseLock(doc))
       IN  IF removed.root \notin DOMAIN removed.nodes
           THEN /\ bres' = Err("flake has no root node")
                /\ bpc' = "done"
                /\ UNCHANGED written
           ELSE /\ written' = Some(WriteLock(RemoveRootInputs(removed)))
                /\ bpc' = "prepared"
                /\ UNCHANGED bres
    /\ UNCHANGED <<nixRuns, resultPath, bsteps, outFile>>
    /\ UNCHANGED notBuild

\* A build that looks at the exit status only after resolving the link.
BuildStepsStatusLate(fault) ==
    IF fault = "nix" THEN <<"nix build", "read_link">>
    ELSE IF fault = "read_link" THEN <<"nix build", "read_link">>
    ELSE IF fault = "copy" THEN <<"nix build", "read_link", "io::copy">>
    ELSE <<"nix build", "read_link", "io::copy", "read flake.lock">>

\* Lines 79-112: what build does up to the step that fails; each step is
\* followed by `?` or, for the exit status, by `ensure!`.
BuildSteps(fault) ==
    IF fault = "nix" THEN <<"nix build">>
    ELSE IF fault = "read_link" THEN <<"nix build", "read_link">>
    ELSE IF fault = "copy" THEN <<"nix build", "read_link", "io::copy">>
    ELSE <<"nix build", "read_link", "io::copy", "read flake.lock">>

\* Lines 78-129: the builder runs, the result link is resolved, the image is
\* copied, the lock file is read back and the store hash is cut.
BuildRun(fault, path, withRev) ==
    /\ bpc = "prepared"
    /\ bpc' = "done"
    /\ nixRuns' = nixRuns + 1
    /\ bsteps' = bsteps \o BuildSteps(fault)
    /\ UNCHANGED outFile
    /\ IF fault = "nix"
       THEN /\ bres' = Err("nix-build failed")
            /\ UNCHANGED resultPath
       ELSE IF fault = "read_link"
       THEN /\ bres' = Err("failed to read result link")
            /\ UNCHANGED resultPath
       ELSE /\ resultPath' = Some(path)
            /\ IF fault = "copy"
               THEN bres' = Err("io error")
               ELSE IF fault = "lock"
               THEN bres' = Err("failed to read flake.lock")
               ELSE IF StoreHashOf(path) = None
               THEN bres' = Err("failed to get truncated nix store hash for path")
               ELSE bres' = Ok(<<[flake_revs |-> FlakeRevs(Relock(written[1], withRev)),
                                  package |-> BuildPackage,
                                  store_hash |-> StoreHashOf(path)[1]]>>)
    /\ UNCHANGED <<embedded, written>>
    /\ UNCHANGED notBuild

\* build.rs 161-175: create_iso after build returned. An error of build is
\* returned at once; otherwise the empty filesystem is appended, the length
\* is set and, with --output-path, the image is copied there.
CreateIsoReturn(outputGiven) ==
    /\ bpc = "done"
    /\ IF bres.ok
       THEN /\ bsteps' = bsteps \o <<"sparse_copy", "set_len">>
                            \o (IF outputGiven THEN <<"fs::copy">> ELSE <<>>)
            /\ outFile' = outputGiven
            /\ bpc' = "iso"
       ELSE /\ bpc' = "failed"
            /\ UNCHANGED <<bsteps, outFile>>
    /\ UNCHANGED <<embedded, written, nixRuns, resultPath, bres>>
    /\ UNCHANGED notBuild

\* ec2.rs 19, oxide.rs 39: `self.create_iso()?`, then the publisher goes on.
PublishAfterIso ==
    /\ bpc = "iso"
    /\ bpc' = "publishing"
    /\ bsteps' = Append(bsteps, "publish")
    /\ UNCHANGED <<embedded, written, nixRuns, resultPath, bres, outFile>>
    /\ UNCHANGED notBuild

BuildFaults == {"none", "nix", "read_link", "copy", "lock"}

BuildNext ==
    \/ \E doc \in EmbeddedLocks : BuildPrepare(doc)
    \/ \E fault \in BuildFaults, path \in ResultPaths, withRev \in BOOLEAN :
          BuildRun(fault, path, withRev)
    \/ \E outputGiven \in BOOLEAN : CreateIsoReturn(outputGiven)
    \/ PublishAfterIso

(***************************************************************************)
(*      Args::into_nixos_builder, Args::create_iso  (src/src/build.rs)     *)
(***************************************************************************)

\* The most targets a package has.
MaxTargets == 2

TargetNames == {"a", "b"}
TargetKinds == {{"bin"}, {"lib"}}
Targets == [name : TargetNames, kind : TargetKinds]
TargetLists == SeqsUpTo(Targets, MaxTargets)
BinArgs == {None} \cup {Some(n) : n \in TargetNames \cup {"c"}}

\* Option::or
OptionOr(a, b) == IF a # None THEN a ELSE b

\* Config::update on `bin`: the command line first, then the package metadata.
ConfigUpdateBin(self, other) == OptionOr(other, self)

\* `filter(|t| t.kind.iter().any(|k| k == "bin"))`
BinTargets(ts) == SelectSeq(ts, LAMBDA t : "bin" \in t.kind)

\* `find(|t| &t.name == bin)`: the first bin target of that name.
FindNamed(bins, name) ==
    LET hits == SelectSeq(bins, LAMBDA t : t.name = name)
    IN  IF hits = <<>> THEN None ELSE Some(hits[1])

\* A selection that takes the first bin target of several.
SelectBinFirst(ts, bin) ==
    LET bins == BinTargets(ts)
    IN  IF bin # None
        THEN IF FindNamed(bins, bin[1]) = None
             THEN Err("no bin target named")
             ELSE Ok(<<FindNamed(bins, bin[1])[1].name>>)
        ELSE IF bins = <<>> THEN Err("project contains no bin targets")
        ELSE Ok(<<bins[1].name>>)

\* Lines 119-135: the bin target to build.
SelectBin(ts, bin) ==
    LET bins == BinTargets(ts)
    IN  IF bin # None
        THEN IF FindNamed(bins, bin[1]) = None
             THEN Err("no bin target named")
             ELSE Ok(<<FindNamed(bins, bin[1])[1].name>>)
        ELSE IF bins = <<>> THEN Err("project contains no bin targets")
        ELSE IF Len(bins) > 1
        THEN Err("project contains multiple bin targets; choose one with --bin")
        ELSE Ok(<<bins[1].name>>)

\* What can fail before the selection (lines 97-112).
EarlyFaults ==
    {"failed to canonicalize", "failed to run cargo metadata",
     "cannot determine root package", "invalid metadata"}

TargetInit ==
    /\ tpc = "args"
    /\ targets = <<>>
    /\ cliBin = None
    /\ metaBin = None
    /\ builderRuns = 0
    /\ tres = Err("")

TargetIdle ==
    /\ tpc = "idle"
    /\ targets = <<>>
    /\ cliBin = None
    /\ metaBin = None
    /\ builderRuns = 0
    /\ tres = Err("")

\* create_iso, line 160: into_nixos_builder, lines 96-145.
IntoNixosBuilder(ts, cli, meta, fault) ==
    /\ tpc = "args"
    /\ targets' = ts
    /\ cliBin' = cli
    /\ metaBin' = meta
    /\ LET result == IF fault # "none" THEN Err(fault)
                     ELSE SelectBin(ts, ConfigUpdateBin(meta, cli))
       IN  /\ tres' = result
           /\ tpc' = IF result.ok THEN "selected" ELSE "failed"
    /\ UNCHANGED builderRuns
    /\ UNCHANGED notTarget

\* create_iso, line 161: reached only when line 160 did not return.
CreateIsoBuild ==
    /\ tpc = "selected"
    /\ tpc' = "built"
    /\ builderRuns' = builderRuns + 1
    /\ UNCHANGED <<targets, cliBin, metaBin, tres>>
    /\ UNCHANGED notTarget

TargetNext ==
    \/ \E ts \in TargetLists, cli \in BinArgs, meta \in BinArgs,
          fault \in EarlyFaults \cup {"none"} : IntoNixosBuilder(ts, cli, meta, fault)
    \/ CreateIsoBuild

(***************************************************************************)
(*        Config::from_metadata, Config::update  (src/src/build.rs)        *)
(***************************************************************************)

\* The most entries of a nixpkgs list.
MaxPkgs == 1
\* `self.config.port.or(Some(8000))`
DefaultPort == 8000

\* Config::default(): every option None, no nixpkgs.
ConfigDefault ==
    [bin |-> None, cert_storage |-> None, nixpkgs |-> <<>>, port |-> None,
     run_args |-> None]

Configs ==
    [bin : {None, Some("a"), Some("b")},
     cert_storage : {None, Some("FileSystem"), Some("Dynamodb")},
     nixpkgs : SeqsUpTo({"jq", "git"}, MaxPkgs),
     port : {None, Some(80), Some(443)},
     run_args : {None, Some(<<>>), Some(<<"-v">>)}]

\* Config::from_metadata, lines 193-201: the `dropkick` table, or the default.
FromMetadata(md) == IF md = None THEN ConfigDefault ELSE md[1]

\* An update in which the value of `self` wins.
ConfigUpdateSelfWins(self, other) ==
    [bin |-> OptionOr(self.bin, other.bin),
     cert_storage |-> OptionOr(self.cert_storage, other.cert_storage),
     nixpkgs |-> self.nixpkgs \o other.nixpkgs,
     port |-> OptionOr(self.port, other.port),
     run_args |-> OptionOr(self.run_args, other.run_args)]

\* Config::update, lines 180-191.
ConfigUpdate(self, other) ==
    [bin |-> ConfigUpdateBin(self.bin, other.bin),
     cert_storage |-> OptionOr(other.cert_storage, self.cert_storage),
     nixpkgs |-> other.nixpkgs \o self.nixpkgs,
     port |-> OptionOr(other.port, self.port),
     run_args |-> OptionOr(other.run_args, self.run_args)]

\* Lines 113-115: the defaults.
WithDefaults(c) ==
    [c EXCEPT !.cert_storage = OptionOr(@, Some("FileSystem")),
              !.port = OptionOr(@, Some(DefaultPort)),
              !.run_args = OptionOr(@, Some(<<>>))]

ConfigInit ==
    /\ cfgPc = "args"
    /\ cfgCli = ConfigDefault
    /\ cfgMeta = None
    /\ cfgMerged = ConfigDefault
    /\ cfgEff = ConfigDefault

ConfigIdle ==
    /\ cfgPc = "idle"
    /\ cfgCli = ConfigDefault
    /\ cfgMeta = None
    /\ cfgMerged = ConfigDefault
    /\ cfgEff = ConfigDefault

\* into_nixos_builder, lines 112-115.
MergeConfig(cli, md) ==
    /\ cfgPc = "args"
    /\ cfgPc' = "done"
    /\ cfgCli' = cli
    /\ cfgMeta' = md
    /\ cfgMerged' = ConfigUpdate(FromMetadata(md), cli)
    /\ cfgEff' = WithDefaults(ConfigUpdate(FromMetadata(md), cli))
    /\ UNCHANGED notConfig

ConfigNext ==
    /\ cfgPc = "args"
    /\ \E cli \in Configs, md \in {None} \cup {Some(c) : c \in Configs} :
          MergeConfig(cli, md)

(***************************************************************************)
(*                           the specifications                            *)
(***************************************************************************)

InitCopy ==
    CopyInit /\ FetchIdle /\ MountIdle /\ SudoIdle /\ NameIdle /\ PubIdle /\
    StackIdle /\ BuildIdle /\ TargetIdle /\ ConfigIdle
SpecCopy == InitCopy /\ [][CopyNext]_vars

InitFetch ==
    FetchInit /\ CopyIdle /\ MountIdle /\ SudoIdle /\ NameIdle /\ PubIdle /\
    StackIdle /\ BuildIdle /\ TargetIdle /\ ConfigIdle
SpecFetch == InitFetch /\ [][FetchNext]_vars

InitMount ==
    MountInit /\ CopyIdle /\ FetchIdle /\ SudoIdle /\ NameIdle /\ PubIdle /\
    StackIdle /\ BuildIdle /\ TargetIdle /\ ConfigIdle
SpecMount == InitMount /\ [][MountNext]_vars

InitSudo ==
    SudoInit /\ CopyIdle /\ FetchIdle /\ MountIdle /\ NameIdle /\ PubIdle /\
    StackIdle /\ BuildIdle /\ TargetIdle /\ ConfigIdle
SpecSudo == InitSudo /\ [][SudoNext]_vars

InitName ==
    NameInit /\ CopyIdle /\ FetchIdle /\ MountIdle /\ SudoIdle /\ PubIdle /\
    StackIdle /\ BuildIdle /\ TargetIdle /\ ConfigIdle
SpecName == InitName /\ [][NameNext]_vars

InitPub ==
    PubInit /\ CopyIdle /\ FetchIdle /\ MountIdle /\ SudoIdle /\ NameIdle /\
    StackIdle /\ BuildIdle /\ TargetIdle /\ ConfigIdle
SpecPub == InitPub /\ [][PubNext]_vars

InitStack ==
    StackInit /\ CopyIdle /\ FetchIdle /\ MountIdle /\ SudoIdle /\ NameIdle /\
    PubIdle /\ BuildIdle /\ TargetIdle /\ ConfigIdle
SpecStack == InitStack /\ [][StackNext]_vars

InitBuild ==
    BuildInit /\ CopyIdle /\ FetchIdle /\ MountIdle /\ SudoIdle /\ NameIdle /\
    PubIdle /\ StackIdle /\ TargetIdle /\ ConfigIdle
SpecBuild == InitBuild /\ [][BuildNext]_vars

InitTarget ==
    TargetInit /\ CopyIdle /\ FetchIdle /\ MountIdle /\ SudoIdle /\ NameIdle /\
    PubIdle /\ StackIdle /\ BuildIdle /\ ConfigIdle
SpecTarget == InitTarget /\ [][TargetNext]_vars

InitConfig ==
    ConfigInit /\ CopyIdle /\ FetchIdle /\ MountIdle /\ SudoIdle /\ NameIdle /\
    PubIdle /\ StackIdle /\ BuildIdle /\ TargetIdle
SpecConfig == InitConfig /\ [][ConfigNext]_vars

(***************************************************************************)
(*                               the claims                                *)
(***************************************************************************)

\* The region sparse_copy appended to the destination.
Appended == SubSeq(dest, Len(base) + 1, Len(dest))

\* C1: after sparse_copy and set_len, the appended region equals the source
\* byte for byte and is exactly as long, and the bytes before it are kept,
\* whatever the sizes of the reads (1..BufSize bytes each).
C1_RoundTrip ==
    cpc = "done" =>
        /\ Len(dest) = Len(base) + Len(src)
        /\ Appended = src
        /\ SubSeq(dest, 1, Len(base)) = base

\* ---- what a call's log holds ----
HasEv(op) == \E i \in DOMAIN flog : flog[i].op = op
\* The requests for the artifact body.
ImageGets ==
    {i \in DOMAIN flog : flog[i].op = "get" /\ StripSuffix(flog[i].arg, Filename) # None}
\* The signature file is a signature by the Ubuntu key over these very bytes.
GenuineSig(bytes, data) ==
    /\ bytes # <<>>
    /\ bytes[1].tag = "sig"
    /\ bytes[1].key = UbuntuKey
    /\ bytes[1].over = data

\* C2: when the signature file was fetched and is not a parseable signature
\* by the Ubuntu key over the manifest's bytes, the call has ended with an
\* error and has extracted no digest, opened, hashed or deleted no cache
\* file, downloaded no artifact and moved no file into the cache.
C2_SigFailureAborts ==
    (sigfile # None /\ ~GenuineSig(sigfile[1], checksums)) =>
        /\ fpc = "done"
        /\ ~fres.ok
        /\ checksum = None
        /\ \A i \in DOMAIN flog :
              flog[i].op \notin {"digest", "open", "hash", "remove", "mktemp", "rename", "rmtemp"}
        /\ ImageGets = {}
        /\ fs = fs0

C2_Witness ==
    /\ fpc = "done"
    /\ sigfile \in {Some(<<JunkPacket>>), Some(<<SigPacket(checksums, "mallory")>>)}
    /\ ~fres.ok

\* C3: a call that verified a manifest whose digest is the one a successful
\* fetch for the same serial stored, the cache file untouched since, returns
\* the cache path without downloading the artifact and without writing,
\* deleting or renaming anything in the cache directory.
C3_CacheHitIdempotent ==
    (/\ fpc = "done"
     /\ checksum # None
     /\ serial \in DOMAIN intact0
     /\ intact0[serial] = checksum[1]) =>
        /\ fres = Ok(CachePath(serial))
        /\ ImageGets = {}
        /\ \A i \in DOMAIN flog : flog[i].op \notin {"remove", "mktemp", "rename", "rmtemp"}
        /\ fs = fs0
        /\ intact = intact0

C3_Witness ==
    /\ fpc = "done"
    /\ checksum # None
    /\ serial \in DOMAIN intact0
    /\ intact0[serial] = checksum[1]
    /\ fres.ok

\* The call found a file at the cache path whose digest is not the manifest's.
StaleAtStart ==
    /\ checksum # None
    /\ fpc \in {"download", "stream", "done"}
    /\ CachePath(serial) \in DOMAIN fs0
    /\ Sha256(fs0[CachePath(serial)]) # checksum[1]

\* C4: when the cached file's digest differs from the manifest's, the file is
\* deleted before any download starts, the download is attempted exactly
\* once, and a mismatch of the downloaded bytes ends the call with an error.
C4_StaleDeletedThenOneDownload ==
    StaleAtStart =>
        /\ \E r \in DOMAIN flog :
              /\ flog[r] = Ev("remove", CachePath(serial))
              /\ \A g \in ImageGets : r < g
        /\ Cardinality(ImageGets) <= 1
        /\ fpc \in {"stream", "done"} => Cardinality(ImageGets) = 1
        /\ fpc \in {"download", "stream"} => CachePath(serial) \notin DOMAIN fs
        /\ fpc = "done" =>
              \/ ~fres.ok /\ CachePath(serial) \notin DOMAIN fs
              \/ fres.ok /\ Sha256(fs[CachePath(serial)]) = checksum[1]

C4_Witness ==
    /\ StaleAtStart
    /\ fpc = "done"
    /\ fres = Err("invalid checksum for downloaded image")

\* C5: the temporary file exists only while the body streams; a rename into
\* the cache path happens only as the last step of a call that hashed the
\* whole body and found the manifest's digest; a call whose download failed
\* or mismatched returns an error and leaves neither the temporary file nor
\* a file at the cache path.
C5_FailedDownloadLeavesNothing ==
    /\ TempPath \in DOMAIN fs => fpc = "stream"
    /\ HasEv("rename") =>
          /\ fpc = "done"
          /\ fres = Ok(CachePath(serial))
          /\ flog[Len(flog)] = Ev("rename", CachePath(serial))
          /\ Sha256(fs[CachePath(serial)]) = checksum[1]
    /\ (fpc = "done" /\ ImageGets # {} /\ ~fres.ok) =>
          /\ TempPath \notin DOMAIN fs
          /\ CachePath(serial) \notin DOMAIN fs
          /\ ~HasEv("rename")
          /\ HasEv("mktemp") => flog[Len(flog)] = Ev("rmtemp", TempPath)

C5_Witness ==
    /\ fpc = "done"
    /\ fres = Err("invalid checksum for downloaded image")
    /\ HasEv("rmtemp")
    /\ fs0 = <<>>

\* C6: after a call that got past the digest lookup, the cache path is absent
\* or holds a file with the manifest's digest, and an Ok result names the
\* cache path, whose file this call hashed or stored itself.
C6_CacheHoldsOnlyVerified ==
    /\ (fpc = "done" /\ checksum # None) =>
          \/ CachePath(serial) \notin DOMAIN fs
          \/ Sha256(fs[CachePath(serial)]) = checksum[1]
    /\ (fpc = "done" /\ fres.ok) =>
          /\ checksum # None
          /\ fres.val = CachePath(serial)
          /\ CachePath(serial) \in DOMAIN fs
          /\ Sha256(fs[CachePath(serial)]) = checksum[1]
          /\ HasEv("hash") \/ HasEv("rename")

C6_Witness ==
    /\ fpc = "done"
    /\ fres.ok
    /\ HasEv("hash")
    /\ ~HasEv("rename")
    /\ CachePath(serial) \in DOMAIN fs

\* The value of the first line that starts with `serial=`.
RECURSIVE FirstSerialValue(_)
FirstSerialValue(text) ==
    IF text = <<>> THEN None
    ELSE IF Head(text) # <<>> /\ Head(text)[1] = "serial="
    THEN Some(Tail(Head(text)))
    ELSE FirstSerialValue(Tail(text))

\* Serial resolution, for a call that is past it: with lookup, build-info is
\* the first request and the serial is its first `serial=` value (an error
\* without one); without, build-info is never requested and the argument is
\* used as it is in every URL and in the cache file's name.
SerialResolution(lookup) ==
    fpc \notin {"idle", "serial"} =>
        IF lookup
        THEN /\ flog # <<>> /\ flog[1] = Ev("get", BuildInfoUrl)
             /\ info = None => fpc = "done" /\ ~fres.ok
             /\ (info # None /\ FirstSerialValue(info[1]) = None) =>
                   /\ fpc = "done"
                   /\ fres = Err("no image serial found in current ubuntu image build info")
             /\ (info # None /\ FirstSerialValue(info[1]) # None) =>
                   Some(serial) = FirstSerialValue(info[1])
        ELSE /\ \A i \in DOMAIN flog : flog[i] # Ev("get", BuildInfoUrl)
             /\ serial = farg[1]
             /\ \A i \in DOMAIN flog :
                   /\ flog[i].op = "get" => StripPrefix(flog[i].arg, BaseUrl(farg[1])) # None
                   /\ flog[i].op \in {"open", "hash", "remove", "rename"} =>
                         flog[i].arg = CachePath(farg[1])
             /\ (fpc = "done" /\ fres.ok) => fres.val = CachePath(farg[1])

\* C7 as stated: the serial is looked up exactly when no serial is given.
C7_AnyExplicitSerialVerbatim == SerialResolution(farg = None)

\* C7 as amended: the serial is looked up when no serial is given or the
\* given serial is the word `current`; any other given serial is used as it is.
C7_CurrentIsLookedUp == SerialResolution(farg = None \/ farg = Some(<<"current">>))

C7_Witness ==
    /\ fpc = "done"
    /\ farg = Some(<<"current">>)
    /\ info # None
    /\ fres.ok
    /\ fres.val = CachePath(FirstSerialValue(info[1])[1])

\* A line of SHA256SUMS is `<digest><blank><mode character><file name>`.
LineName(line) ==
    LET blanks == {i \in 1..Len(line) : line[i] = " "}
        k == CHOOSE i \in blanks : \A j \in blanks : i <= j
    IN  IF blanks = {} \/ k + 1 > Len(line) THEN None
        ELSE Some(SubSeq(line, k + 2, Len(line)))
HasLineFor(text, name) == \E i \in 1..Len(text) : LineName(text[i]) = Some(name)

\* C8: in a call whose signature verified and whose manifest has no line for
\* exactly the target file name, the lookup ends the call with the error
\* 'failed to find checksum in SHA256SUMS', before the cache directory is
\* touched and before any artifact download.
C8_MissingLineIsNotFound ==
    (/\ sigfile # None
     /\ GenuineSig(sigfile[1], checksums)
     /\ fpc # "lookup"
     /\ ~HasLineFor(checksums, Filename)) =>
        /\ fpc = "done"
        /\ fres = Err("failed to find checksum in SHA256SUMS")
        /\ \A i \in DOMAIN flog : flog[i].op \notin {"mkdir", "open", "hash", "remove", "mktemp"}
        /\ ImageGets = {}

\* ---- C9 ----

\* The lines of the output that start with the marker, and the first
\* whitespace-delimited token after it.
MarkedAt(out) == {i \in 1..Len(out) : Len(out[i]) >= 1 /\ out[i][1] = AddMap}
TokenAfterMarker(line) ==
    line[CHOOSE i \in 2..Len(line) :
            /\ line[i] # Blank
            /\ \A j \in 2..(i - 1) : line[j] = Blank]
FirstMarked(out) == out[CHOOSE i \in MarkedAt(out) : \A j \in MarkedAt(out) : i <= j]

\* A Kpartx as C9 describes it, given the output it was made from.
WellFormedKpartx(k, out) ==
    /\ MarkedAt(out) # {}
    /\ k.partitions # <<>>
    /\ k.partitions[1] = TokenAfterMarker(FirstMarked(out))
    /\ MainPartition(k) = <<"/dev/mapper/", TokenAfterMarker(FirstMarked(out))>>

\* C9: Kpartx::new returns a Kpartx only if the output of `kpartx -avs` has
\* at least one line starting with `add map `; when the output has no such
\* line it returns the error "no partitions detected from kpartx output",
\* which no other failure of Kpartx::new produces; and every Kpartx a caller
\* holds (directly or inside a MountPoint) has a non-empty partition list
\* whose first entry is the first token of the first marked line, which is
\* the device main_partition names.
C9_NonEmptyPartitions ==
    /\ (mop = "Kpartx::new" /\ mres.ok) => (kout # None /\ kpx # None)
    /\ (mop = "Kpartx::new" /\ kout # None /\ MarkedAt(kout[1]) = {})
          => mres = Err("no partitions detected from kpartx output")
    /\ (mop = "Kpartx::new" /\ mres = Err("no partitions detected from kpartx output"))
          => (kout # None /\ MarkedAt(kout[1]) = {})
    /\ kpx # None => (kout # None /\ WellFormedKpartx(kpx[1], kout[1]))
    /\ (mnt # None /\ mnt[1].kpartx # None)
          => (kout # None /\ WellFormedKpartx(mnt[1].kpartx[1], kout[1]))

\* Kpartx::new has returned a Kpartx from an output whose first line is not
\* marked and whose second has whitespace between the marker and the name.
C9_Witness ==
    /\ mop = "Kpartx::new"
    /\ mres.ok
    /\ kout = Some(<< <<Blank, AddMap, "loop0p4">>, <<AddMap, Blank, "loop0p3">> >>)
    /\ kpx[1].partitions = <<"loop0p3">>

\* ---- C10 ----

At(prog, arg) == {i \in 1..Len(sys.log) : sys.log[i].prog = prog /\ sys.log[i].arg = arg}
Mounts == {i \in 1..Len(sys.log) : sys.log[i].prog = "mount" /\ sys.log[i].ok}

\* C10: once MountPoint::new has succeeded, when control has left the scope
\* holding the mount (finish returned Ok or an error, or the handle was
\* dropped), `umount` has been invoked on the mount directory after the
\* mount and `kpartx -d` on the backing file after that; and no `umount` is
\* ever invoked after a `kpartx -d`.
C10_UmountThenUnmap ==
    /\ \A u \in At("umount", MountDir) : \A d \in At("kpartx -d", Image) : u < d
    /\ mpc = "end" =>
          \A m \in Mounts :
             \E u \in At("umount", MountDir) : \E d \in At("kpartx -d", Image) :
                m < u /\ u < d

\* finish has returned an error because umount failed, and both commands
\* have been invoked.
C10_Witness ==
    /\ mpc = "end"
    /\ mop = "ImageContext::finish"
    /\ ~mres.ok
    /\ Mounts # {}
    /\ \E u \in At("umount", MountDir) : ~sys.log[u].ok
    /\ At("kpartx -d", Image) # {}

\* ---- C11 ----

\* The mount directory is a mounted filesystem when command number i of the
\* log is invoked: a mount succeeded before it and no umount succeeded since.
MountedWhen(i) ==
    \E m \in 1..(i - 1) :
       /\ sys.log[m].prog = "mount" /\ sys.log[m].ok
       /\ \A u \in (m + 1)..(i - 1) : ~(sys.log[u].prog = "umount" /\ sys.log[u].ok)

\* C11: `kpartx -d` is invoked for the backing file only when the mount
\* directory is no longer a mounted filesystem, also on the paths where the
\* umount command fails.
C11_NoUnmapWhileMounted ==
    \A d \in At("kpartx -d", Image) : ~MountedWhen(d)

\* ---- C12 ----

\* C12: when an interrupt signal has ended the process while a partition map
\* or a mount was held, `kpartx -d` has been invoked on the backing file
\* and, if the partition was mounted, `umount` on the mount directory after
\* the mount.
C12_InterruptReleases ==
    mpc = "killed" =>
       /\ At("kpartx -d", Image) # {}
       /\ \A m \in Mounts : \E u \in At("umount", MountDir) : m < u

\* ---- C13 ----

\* The commands one step adds to the log, and the release commands among
\* them that failed.
NewCmds == SubSeq(sys'.log, Len(sys.log) + 1, Len(sys'.log))
FailedReleases(cmds, from) ==
    {i \in from..Len(cmds) : cmds[i].prog \in {"umount", "kpartx -d"} /\ ~cmds[i].ok}
NewErrors == Len(sys'.errors) - Len(sys.errors)
ExitFailure == Err("process exited with failure")

\* C13: a failed umount or kpartx -d run by a drop is logged, one record
\* each, and leaves the result as it was: a dropped Kpartx or MountPoint
\* keeps the earlier result, Kpartx::new and MountPoint::new report their
\* own error whatever the cleanup did. A failed umount or kpartx -d run by
\* MountPoint::unmount, Kpartx::delete or ImageContext::finish itself is
\* that operation's error and is not logged.
C13_CleanupFailureOnlyLogged ==
    [][ LET new == NewCmds IN
        /\ mop' \in {"drop Kpartx", "drop MountPoint"} =>
              /\ mres' = mres
              /\ NewErrors = Cardinality(FailedReleases(new, 1))
        /\ mop' = "Kpartx::new" =>
              /\ new[1].prog = "kpartx -avs"
              /\ new[1].ok => mres' # ExitFailure
              /\ NewErrors = Cardinality(FailedReleases(new, 2))
        /\ mop' = "MountPoint::new" =>
              /\ mres'.ok <=> (new # <<>> /\ new[1].prog = "mount" /\ new[1].ok)
              /\ (new = <<>> \/ new[1].prog # "mount") => mres' = Err("tempdir failed")
              /\ NewErrors = Cardinality(FailedReleases(new, 1))
        /\ mop' = "Kpartx::delete" =>
              /\ new[1].prog = "kpartx -d"
              /\ mres'.ok <=> new[1].ok
              /\ ~new[1].ok => mres' = ExitFailure
              /\ NewErrors = 0
        /\ mop' = "MountPoint::unmount" =>
              /\ new[1].prog = "umount"
              /\ mres'.ok <=> new[1].ok
              /\ ~new[1].ok => mres' = ExitFailure
              /\ NewErrors = Cardinality(FailedReleases(new, 2))
        /\ mop' = "ImageContext::finish" =>
              /\ new[1].prog = "umount"
              /\ ~new[1].ok =>
                    /\ mres' = ExitFailure
                    /\ NewErrors = Cardinality(FailedReleases(new, 2))
              /\ new[1].ok =>
                    /\ new[2].prog = "kpartx -d"
                    /\ ~new[2].ok => mres' = ExitFailure
                    /\ mres'.ok => new[2].ok
                    /\ NewErrors = 0
      ]_vars

\* A MountPoint was dropped after MountPoint::new returned Ok, both umount
\* and kpartx -d failed in the drop, both failures are logged and the
\* result is still the Ok.
C13_Witness ==
    /\ mop = "drop MountPoint"
    /\ mres = Ok(<<"MountPoint">>)
    /\ sys.errors = <<"MountPoint::drop", "Kpartx::drop">>
    /\ \E u \in At("umount", MountDir) : ~sys.log[u].ok
    /\ \E d \in At("kpartx -d", Image) : ~sys.log[d].ok

\* ---- C14 ----

Maps == {i \in 1..Len(sys.log) : sys.log[i].prog = "kpartx -avs" /\ sys.log[i].ok}

\* C14: umount is invoked at most once for each MountPoint (between two
\* umount invocations a mount has succeeded, and none comes before the first
\* successful mount), and kpartx -d at most once for each Kpartx (likewise
\* for kpartx -avs), whatever explicit releases and drops happen.
C14_NoDoubleRelease ==
    /\ \A u \in At("umount", MountDir) : \E m \in Mounts : m < u
    /\ \A u1, u2 \in At("umount", MountDir) :
          u1 < u2 => \E m \in Mounts : u1 < m /\ m < u2
    /\ \A d \in At("kpartx -d", Image) : \E k \in Maps : k < d
    /\ \A d1, d2 \in At("kpartx -d", Image) :
          d1 < d2 => \E k \in Maps : d1 < k /\ k < d2

\* MountPoint::unmount returned the Kpartx and was dropped, then
\* Kpartx::delete failed and the Kpartx was dropped: one umount, one
\* kpartx -d.
C14_Witness ==
    /\ mpc = "end"
    /\ mop = "Kpartx::delete"
    /\ ~mres.ok
    /\ Mounts # {}
    /\ Cardinality(At("umount", MountDir)) = 1
    /\ Cardinality(At("kpartx -d", Image)) = 1

\* ---- C15 ----

\* C15: every mapping, mount, unmount and unmapping command the program
\* runs is run through with_sudo.
C15_PrivilegedThroughSudo ==
    \A i \in 1..Len(sys.log) :
       sys.log[i].prog \in {"kpartx -avs", "mount", "umount", "kpartx -d"}
          => sys.log[i].sudo

\* ---- C16 ----

\* C16: the command with_sudo returns runs `sudo`, its arguments are the
\* original program followed by the original arguments in order, its
\* working directory is the original's (set or unset), and it has exactly
\* the original's explicit environment settings, values and removals.
C16_SudoChangesOnlyProgram ==
    spc = "wrapped" =>
       /\ wrapped # None
       /\ wrapped[1].program = "sudo"
       /\ wrapped[1].args = <<cmd.program>> \o cmd.args
       /\ wrapped[1].dir = cmd.dir
       /\ DOMAIN wrapped[1].envs = DOMAIN cmd.envs
       /\ \A k \in DOMAIN cmd.envs : wrapped[1].envs[k] = cmd.envs[k]

\* with_sudo was applied to a command with two arguments, a working
\* directory, one variable set and one marked for removal.
C16_Witness ==
    /\ spc = "wrapped"
    /\ cmd.program = "kpartx"
    /\ cmd.args = <<"-d", "image.tmp">>
    /\ cmd.dir = Some("/work")
    /\ DOMAIN cmd.envs = {"LANG", "PATH"}
    /\ cmd.envs["LANG"] = Some("C")
    /\ cmd.envs["PATH"] = None
    /\ wrapped[1].args = <<"kpartx", "-d", "image.tmp">>

\* ---- C17 ----

EndsWith(s, suf) ==
    Len(s) >= Len(suf) /\ SubSeq(s, Len(s) - Len(suf) + 1, Len(s)) = suf

\* C17: the EC2 image name is the first min(len, 95) characters of the
\* package name, `-`, and the store hash; it is at most 128 characters
\* long, exactly 128 when the package name has 95 characters or more, and
\* it ends with `-` and the whole hash.
C17_Ec2NameKeepsHash ==
    provider = "ec2" =>
       LET kept == IF Len(pkgName) < 95 THEN Len(pkgName) ELSE 95 IN
       /\ Len(storeHash) = 32
       /\ Len(imageName) = kept + 33
       /\ \A i \in 1..kept : imageName[i] = pkgName[i]
       /\ imageName[kept + 1] = "-"
       /\ \A i \in 1..32 : imageName[kept + 1 + i] = storeHash[i]
       /\ Len(imageName) <= 128
       /\ Len(pkgName) >= 95 => Len(imageName) = 128
       /\ EndsWith(imageName, <<"-">> \o storeHash)

\* The EC2 name of a package name of 150 characters.
C17_Witness ==
    /\ provider = "ec2"
    /\ Len(pkgName) = 150
    /\ Len(imageName) = 128
    /\ EndsWith(imageName, <<"-">> \o storeHash)

\* ---- C18 ----

\* C18: for every provider and every package name, the image name ends
\* with the complete store hash.
C18_EveryNameKeepsHash ==
    npc = "named" => EndsWith(imageName, storeHash)

\* ---- C19 ----

\* C19: an invocation that starts after another with the same provenance
\* has returned an identifier makes one remote call only, the lookup by
\* name (no upload, no registration, no tagging), and when that call
\* succeeds it returns the identifier the earlier invocation returned.
C19_RepublishIsNoOp ==
    \A r \in Runs :
       (pst[r] = "done" /\ pseen[r] # None) =>
          /\ pidx[r] = 1
          /\ pres[r] \in {Ok(pseen[r][1]), Err(PubCalls(pprov, pdeploy)[1])}

\* ---- C20 ----

OwnImages ==
    {i \in 1..Len(registry.images) :
        /\ registry.images[i].owner = "self"
        /\ registry.images[i].name = PubImageName(pprov)}

\* C20: whatever the number of invocations with the same provenance and
\* however their calls interleave, the registry holds at most one image of
\* the caller's under the computed name.
C20_CreatedOnce ==
    Cardinality(OwnImages) <= 1

\* ---- C21 ----

CallsAt(r, call) == {i \in 1..Len(plog[r]) : plog[r][i].call = call}
OkAt(r, call) == {i \in CallsAt(r, call) : plog[r][i].ok}

\* C21: an EC2 invocation calls RegisterImage only after its snapshot upload
\* returned and its wait for the completed state succeeded, in that order;
\* when the upload or the wait fails it makes no RegisterImage and no
\* CreateTags call, not then and not later, and returns an error.
C21_RegisterAfterSnapshot ==
    pprov = "ec2" =>
       \A r \in Runs :
          /\ \A g \in CallsAt(r, "register_image") :
                \E u \in OkAt(r, "upload_snapshot") : \E w \in OkAt(r, "wait_snapshot") :
                   u < w /\ w < g
          /\ \A t \in CallsAt(r, "create_tags") :
                \E g \in OkAt(r, "register_image") : g < t
          /\ (\E i \in 1..Len(plog[r]) :
                 plog[r][i].call \in {"upload_snapshot", "wait_snapshot"} /\ ~plog[r][i].ok)
                => /\ CallsAt(r, "register_image") = {}
                   /\ CallsAt(r, "create_tags") = {}
                   /\ pst[r] = "done"
                   /\ ~pres[r].ok

\* An invocation whose upload returned and whose wait then failed.
C21_Witness ==
    /\ pprov = "ec2"
    /\ \E r \in Runs :
          /\ pst[r] = "done"
          /\ OkAt(r, "upload_snapshot") # {}
          /\ \E w \in CallsAt(r, "wait_snapshot") : ~plog[r][w].ok
          /\ pres[r] = Err("wait_snapshot")

\* ---- C22 ----

\* The invocation met no fault: every call of its that failed was one the
\* provider had to refuse.
NoFault(r) == \A i \in 1..Len(plog[r]) : plog[r][i].ok \/ plog[r][i].refused

\* C22: an invocation that starts alone after a run that failed past the
\* existence check, while no image is visible under the name, and that
\* meets no fault itself, completes and returns an image identifier.
C22_RerunRecovers ==
    \A r \in Runs :
       (pst[r] = "done" /\ prec[r] /\ NoFault(r)) =>
          /\ pres[r].ok
          /\ FindImage(registry, PubImageName(pprov)) # None

\* ---- C23 ----

\* C23: the stack status is polled at most 60 times; the update returns
\* success exactly at a poll that sees update-complete, failure exactly at a
\* poll that sees update-failed, rollback-failed or rollback-complete, a
\* timeout error exactly when the 60th poll sees any other state; while it
\* polls on, no poll has seen one of those four states; once it has
\* returned it polls no more.
C23_StackPolling ==
    /\ polls <= 60
    /\ kpc = "polling" =>
          /\ polls < 60
          /\ kstatus \notin {"UPDATE_COMPLETE", "UPDATE_FAILED", "UPDATE_ROLLBACK_FAILED",
                             "UPDATE_ROLLBACK_COMPLETE"}
    /\ kpc = "done" =>
          /\ polls >= 1
          /\ kres.ok <=> kstatus = "UPDATE_COMPLETE"
          /\ kres = Err("stack update failed") <=>
                kstatus \in {"UPDATE_FAILED", "UPDATE_ROLLBACK_FAILED",
                             "UPDATE_ROLLBACK_COMPLETE"}
          /\ kres = Err("timed out") <=>
                /\ polls = 60
                /\ kstatus \notin {"UPDATE_COMPLETE", "UPDATE_FAILED",
                                   "UPDATE_ROLLBACK_FAILED", "UPDATE_ROLLBACK_COMPLETE"}
          /\ ~ENABLED StackNext

\* The 40th poll is the first to see update-complete: success.
C23_Witness ==
    /\ kpc = "done"
    /\ polls = 40
    /\ kstatus = "UPDATE_COMPLETE"
    /\ kres.ok

\* The final component of the resolved output path.
FinalComponent == resultPath[1][Len(resultPath[1])]

\* C24: when build gets as far as cutting the store hash, a build that
\* returns provenance returns as store_hash exactly the first 32 characters of
\* the final component of the resolved output path; when that component is
\* shorter than 32 characters the build returns the store-hash error and no
\* provenance; every store_hash returned has length 32.
C24_StoreHashIsFirst32 ==
    /\ (bpc \notin {"start", "prepared"} /\ bres.ok) =>
          /\ resultPath # None /\ FileName(resultPath[1]) # None
          /\ Len(FinalComponent) >= HashEnd
          /\ Len(bres.val[1].store_hash) = HashEnd
          /\ \A i \in 1..HashEnd : bres.val[1].store_hash[i] = FinalComponent[i]
    /\ (bpc \notin {"start", "prepared"} /\ resultPath # None /\ FileName(resultPath[1]) # None
            /\ Len(FinalComponent) < HashEnd) =>
          ~bres.ok

\* C24's case: provenance was returned for a path whose final component is
\* longer than the hash.
C24_Witness ==
    /\ bpc = "done" /\ bres.ok
    /\ Len(FinalComponent) > HashEnd

\* The root node of a lock document, and its inputs.
RootInputsOf(doc) ==
    IF "inputs" \in DOMAIN doc["nodes"][doc["root"]]
    THEN doc["nodes"][doc["root"]]["inputs"] ELSE EmptyMap

BinCount == Len(BinTargets(targets))
HasBinNamed(name) == \E i \in 1..Len(targets) :
    "bin" \in targets[i].kind /\ targets[i].name = name
Proceeds == tpc \in {"selected", "built"}

\* C26 as stated: with no --bin the build proceeds only if the package has
\* exactly one bin target.
C26_NoCliBinNeedsOneTarget ==
    (Proceeds /\ cliBin = None) => BinCount = 1

\* C26, amended: the builder runs only after the selection succeeded; with a
\* bin name configured (--bin, or else `bin` in the package metadata) the
\* build proceeds only if a bin target of exactly that name exists, and that
\* target is selected; with none configured it proceeds only if there is
\* exactly one bin target, and zero and several bin targets give two
\* different errors.
C26_TargetSelection ==
    LET bin == IF cliBin # None THEN cliBin ELSE metaBin
    IN  /\ builderRuns > 0 => tres.ok
        /\ tpc = "failed" => (~tres.ok /\ builderRuns = 0)
        /\ (Proceeds /\ bin # None) => (HasBinNamed(bin[1]) /\ tres.val = <<bin[1]>>)
        /\ (Proceeds /\ bin = None) =>
              (BinCount = 1 /\ tres.val = <<BinTargets(targets)[1].name>>)
        /\ (tpc = "failed" /\ tres.val[1] \notin EarlyFaults /\ bin = None) =>
              /\ BinCount # 1
              /\ BinCount = 0 => tres = Err("project contains no bin targets")
              /\ BinCount > 1 =>
                    tres = Err("project contains multiple bin targets; choose one with --bin")

\* C26's case: the builder ran for a package with two bin targets, the one
\* to build named by the package metadata and not by --bin.
C26_Witness ==
    /\ tpc = "built" /\ builderRuns = 1
    /\ cliBin = None /\ metaBin # None
    /\ BinCount = 2

\* The keys of the tags invocation r sent, and the value sent under a key.
TagKeys(r) == {t.key : t \in ptags[r]}
TagValue(r, key) == (CHOOSE t \in ptags[r] : t.key = key).value
FreshPublish(r) ==
    /\ pprov = "ec2" /\ pst[r] = "done" /\ pres[r].ok
    /\ CallsAt(r, "register_image") # {}

BlockRead == SubSeq(src, rpos + 1, rpos')
BlockFrom == Len(base) + rpos
BlockTo == Len(base) + rpos'

\* C28: a turn of the loop that read an all-zero block writes nothing and
\* adds the block's length to the pending seek; a turn that read any other
\* block resets the pending seek and writes exactly the block's bytes, at the
\* offset the block has in the source, leaving the position right after it
\* and every other byte of the destination as it was.
C28_OnlyNonZeroBlocksWritten ==
    [][(cpc = "copy" /\ rpos' > rpos) =>
          IF \A i \in 1..Len(BlockRead) : BlockRead[i] = 0
          THEN /\ dest' = dest /\ dpos' = dpos
               /\ seek' = seek + Len(BlockRead)
          ELSE /\ seek' = 0
               /\ dpos' = BlockTo
               /\ Len(dest') = BlockTo
               /\ SubSeq(dest', BlockFrom + 1, BlockTo) = BlockRead
               /\ \A i \in 1..Len(dest) : dest'[i] = dest[i]
               /\ \A i \in (Len(dest) + 1)..BlockFrom : dest'[i] = 0]_vars

\* How many times a step invoked a command.
Invoked(prog) == Invocations(sys'.log, prog) - Invocations(sys.log, prog)

\* C29: a MountPoint::unmount that fails is followed by the drop's own
\* attempt, so the call invokes umount twice; a Kpartx::delete that fails
\* is followed by the drop's own attempt, so the call invokes kpartx -d twice.
C29_FailedReleaseRetriedByDrop ==
    [][/\ (mpc = "mounted" /\ mop' = "MountPoint::unmount" /\ ~mres'.ok) =>
              Invoked("umount") = 2
       /\ (mpc = "kpartx" /\ mop' = "Kpartx::delete" /\ ~mres'.ok) =>
              Invoked("kpartx -d") = 2]_vars

\* The commands a step invoked, in order.
NewLog == SubSeq(sys'.log, Len(sys.log) + 1, Len(sys'.log))
RanOk(prog) == \E i \in 1..Len(NewLog) : NewLog[i].prog = prog /\ NewLog[i].ok
RanFailing(prog) == \E i \in 1..Len(NewLog) : NewLog[i].prog = prog /\ ~NewLog[i].ok
NoMarkedLine(lines) == \A i \in 1..Len(lines) : lines[i] = <<>> \/ lines[i][1] # AddMap

\* The acquisition failure of a step, once `kpartx -avs` has succeeded:
\* "none" when the step is no such failure.
AcquisitionFailure ==
    IF mpc = "start" /\ mop' = "Kpartx::new" /\ RanOk("kpartx -avs")
    THEN IF kout' = None THEN "invalid utf-8 sequence"
         ELSE IF NoMarkedLine(kout'[1]) THEN "no partitions detected from kpartx output"
         ELSE "none"
    ELSE IF mpc = "kpartx" /\ mop' = "MountPoint::new"
    THEN IF RanFailing("mount") THEN "process exited with failure"
         ELSE IF ~RanOk("mount") THEN "tempdir failed"
         ELSE "none"
    ELSE "none"

\* C30: a step of acquisition that fails after `kpartx -avs` succeeded (the
\* output is not UTF-8 or has no partition, the mount directory cannot be
\* created, mount fails) invokes `kpartx -d` exactly once, on the image, and
\* never umount, and returns the error of the step that failed, whether or
\* not `kpartx -d` succeeds; nothing is left in the caller's hands.
C30_FailedAcquisitionUnmaps ==
    [][AcquisitionFailure # "none" =>
          /\ Invoked("kpartx -d") = 1
          /\ \A i \in 1..Len(NewLog) : NewLog[i].prog = "kpartx -d" => NewLog[i].arg = Image
          /\ NewLog[Len(NewLog)].prog = "kpartx -d"
          /\ Invoked("umount") = 0
          /\ mres' = Err(AcquisitionFailure)
          /\ kpx' = None /\ mnt' = None /\ mpc' = "end"]_vars

\* C30's case: kpartx -avs succeeded and listed a partition, then mount
\* failed, and the one `kpartx -d` that followed failed as well.
C30_Witness ==
    /\ mop = "MountPoint::new" /\ mres = Err("process exited with failure")
    /\ sys.mapped
    /\ Invocations(sys.log, "kpartx -avs") = 1
    /\ Invocations(sys.log, "kpartx -d") = 1
    /\ Invocations(sys.log, "umount") = 0

\* C31: the backing image file is persisted or deleted only once its
\* partitions are no longer mapped, and it is persisted only by a finish
\* whose umount and kpartx -d both succeeded.
C31_FileFreedAfterUnmap ==
    /\ sys.image # SysInit.image => ~sys.mapped
    /\ sys.image = "persisted" =>
          /\ mop = "ImageContext::finish" /\ mres.ok
          /\ \E i \in 1..Len(sys.log) : sys.log[i].prog = "umount" /\ sys.log[i].ok
          /\ \E i \in 1..Len(sys.log) : sys.log[i].prog = "kpartx -d" /\ sys.log[i].ok

\* What build and create_iso did, as a set.
StepsDone == {bsteps[i] : i \in 1..Len(bsteps)}

\* C32: once the builder has exited with a failure, build has returned an
\* error and no provenance without resolving the output link or copying the
\* image, and from then on nothing is appended, nothing is put at the output
\* path and no publisher runs.
C32_BuilderFailureStopsAll ==
    (bpc \in {"done", "failed", "iso", "publishing"} /\ bres = Err("nix-build failed")) =>
        /\ nixRuns = 1
        /\ bsteps = <<"nix build">>
        /\ StepsDone \cap {"read_link", "io::copy", "read flake.lock", "sparse_copy",
                           "set_len", "fs::copy", "publish"} = {}
        /\ resultPath = None
        /\ ~bres.ok
        /\ ~outFile
        /\ bpc \in {"done", "failed"}

\* C32's case: the builder failed and create_iso has returned.
C32_Witness ==
    /\ bpc = "failed"
    /\ bres = Err("nix-build failed")
    /\ bsteps = <<"nix build">>

\* The metadata's value of an option, None when the table is missing.
MetaOption(f) == IF cfgMeta = None THEN None ELSE cfgMeta[1][f]
MetaPkgs == IF cfgMeta = None THEN <<>> ELSE cfgMeta[1].nixpkgs

\* C33: for bin, cert-storage, port and run-args the merged value is the
\* command line's when it has one and the metadata's otherwise; the nixpkgs
\* list is the command line's entries followed by the metadata's; after the
\* defaults cert-storage, port and run-args are never unset: file-system,
\* 8000 and the empty string stand in for an unset value, and nothing else
\* changes.
C33_ConfigMerge ==
    cfgPc = "done" =>
        /\ \A f \in {"bin", "cert_storage", "port", "run_args"} :
              cfgMerged[f] = IF cfgCli[f] # None THEN cfgCli[f] ELSE MetaOption(f)
        /\ cfgMerged.nixpkgs = cfgCli.nixpkgs \o MetaPkgs
        /\ cfgEff.bin = cfgMerged.bin
        /\ cfgEff.nixpkgs = cfgMerged.nixpkgs
        /\ cfgEff.cert_storage =
              IF cfgMerged.cert_storage = None THEN <<"FileSystem">> ELSE cfgMerged.cert_storage
        /\ cfgEff.port = IF cfgMerged.port = None THEN <<8000>> ELSE cfgMerged.port
        /\ cfgEff.run_args = IF cfgMerged.run_args = None THEN <<<<>>>> ELSE cfgMerged.run_args
        /\ cfgEff.cert_storage # None /\ cfgEff.port # None /\ cfgEff.run_args # None

\* C33's case: both sources set a port and list a package, and neither sets
\* cert-storage.
C33_Witness ==
    /\ cfgPc = "done"
    /\ cfgMeta # None
    /\ cfgCli.port = <<443>> /\ cfgMeta[1].port = <<80>>
    /\ cfgCli.nixpkgs # <<>> /\ cfgMeta[1].nixpkgs # <<>>
    /\ cfgCli.nixpkgs # cfgMeta[1].nixpkgs
    /\ cfgCli.cert_storage = None /\ cfgMeta[1].cert_storage = None
    /\ cfgEff.cert_storage = <<"FileSystem">>

\* The image name a publisher computes.
ImageNameFor(prov, name, hash) ==
    IF prov = "ec2" THEN Ec2ImageName(name, hash) ELSE OxideImageName(name, hash)

\* C34: the image name computed for a build differs from the name the same
\* publisher computes for the same package built with any other store hash.
C34_DistinctHashDistinctName ==
    npc = "named" =>
        \A other \in StoreHashes \ {storeHash} :
            ImageNameFor(provider, pkgName, other) # imageName

\* C35: with deploy, every Oxide invocation that returns Ok returns the
\* identifier of an instance that its own instance_create call created.
C35_DeployReturnsInstance ==
    \A r \in Runs :
        (pprov = "oxide" /\ pdeploy /\ pst[r] = "done" /\ pres[r].ok) =>
            /\ pres[r].val[1] = "instance"
            /\ \E i \in 1..Len(plog[r]) :
                  plog[r][i].call = "instance_create" /\ plog[r][i].ok

\* C36: for the Oxide publisher the import disk's name, the snapshot's name
\* and the instance disk's name are each at most 63 characters, so each
\* converts to a Name.
C36_DerivedNamesFit ==
    (npc = "named" /\ provider = "oxide") =>
        /\ Len(OxideDiskName(imageName)) <= 63
        /\ Len(OxideSnapshotName(imageName)) <= 63
        /\ Len(OxideInstanceDiskName(imageName)) <= 63
        /\ NameTryInto(OxideDiskName(imageName)).ok
        /\ NameTryInto(OxideSnapshotName(imageName)).ok
        /\ NameTryInto(OxideInstanceDiskName(imageName)).ok
=============================================================================
